---------------------------- MODULE Spec2Model ----------------------------
(***************************************************************************)
(* Influencer tracking backend: the per-influencer sync services and the   *)
(* scrape-job result handler.                                              *)
(*                                                                         *)
(* Atomicity: the process is single-threaded and event-driven.  A step of  *)
(* an asynchronous function is one awaited operation (a database call, an  *)
(* external request) together with the synchronous code that follows it    *)
(* up to the next await; steps of different calls interleave freely.       *)
(***************************************************************************)
EXTENDS Integers, Sequences, FiniteSets, TLC

(***************************************************************************)
(* Bounds of the model.                                                    *)
(***************************************************************************)
MaxTime == 2         \* clock ticks
MaxPosts == 3        \* rows of the Post collection
MaxBatch == 2        \* posts returned by one scrape of the sync service
MaxJobs == 1         \* ScrapJob rows
MaxPayload == 2      \* elements of a webhook payload array
MaxNested == 2       \* elements of a nested array inside a payload
MaxAdded == 2        \* Influencer records created by addInfluencer
MaxTriggers == 2     \* jobs created by the stepwise initScrap calls
MaxQueue == 1        \* messages waiting on the topic
MaxBuilt == 3        \* adapter instances constructed by getScraper calls
MaxListeners == 2    \* calls of startListener
MaxChars == 4        \* characters of a generated counter string

Calls == {"c1", "c2"}   \* sync-service calls that may overlap
Kinds == {"profile", "posts"}
InflIds == {"i1", "i2"}
GhostId == "i0"      \* an id that matches no Influencer record

VARIABLES
    influencers,     \* Influencer collection: id -> record
    posts,           \* Post collection: sequence of rows
    scrapJobs,       \* ScrapJob collection: jobId -> record
    scrapers,        \* ScraperFactory.scrapers: cache key -> instance, and the
                     \* number of adapter instances constructed so far
    now,             \* the clock read by Date.now() / new Date()
    sync,            \* the sync-service calls in progress
    hook,            \* the last handleWebhook invocation
    applied,         \* history: the posts handed to PostModel.create so far
    adds,            \* the addInfluencer calls in progress
    trigger,         \* the initScrap call in progress and the requests sent
                     \* to the provider
    relay,           \* the webhook relay, the topic and the queue consumer
    factory,         \* history: what the getScraper calls returned
    probe            \* the last call of a pure function: input and result

\* the state of the add, trigger and delivery paths
pipeline == <<adds, trigger, relay, factory, probe>>

vars == <<influencers, posts, scrapJobs, scrapers, now, sync, hook, applied,
          adds, trigger, relay, factory, probe>>

(***************************************************************************)
(* Time.  An instant in epoch milliseconds is kept as thousands (k) and    *)
(* remainder (r), ms = 1000 * k + r, so that it fits the checker's         *)
(* integers.                                                               *)
(***************************************************************************)
Y2KThousands == 946684800
ClockOrigin == 2 * Y2KThousands
Ms(k, r) == [k |-> k, r |-> r]
DateNow(t) == Ms(ClockOrigin + t, 0)
\* a number of milliseconds with a fraction: 1000 * k + r + micro / 10^6
MsFrac(k, r, micro) ==
    IF micro = 0 THEN Ms(k, r) ELSE [k |-> k, r |-> r, micro |-> micro]

(***************************************************************************)
(* Values of loosely typed payload fields.                                 *)
(***************************************************************************)
Absent == [t |-> "undefined"]
Str(s) == [t |-> "string", s |-> s]
Num(n) == [t |-> "number", n |-> n]
\* a decimal string "<whole>.<tenths><suffix>", e.g. "1.2K"
NumStr(whole, tenths, suffix) ==
    [t |-> "numstr", whole |-> whole, tenths |-> tenths, suffix |-> suffix]
\* a URL string: head is its first 24 bytes, tail the rest
Url(head, tail) == [t |-> "url", head |-> head, tail |-> tail]
Bool(b) == [t |-> "boolean", b |-> b]
\* a number too large or too fine for Num: 1000 * k + r + micro / 10^6
Decimal(k, r, micro) == [t |-> "decimal", k |-> k, r |-> r, micro |-> micro]

SeqsUpTo(S, n) == UNION {[1..m -> S] : m \in 0..n}

Truthy(v) ==
    CASE v.t = "undefined" -> FALSE
      [] v.t = "null" -> FALSE
      [] v.t = "string" -> v.s # ""
      [] v.t = "number" -> v.n # 0
      [] v.t = "decimal" -> v.k # 0 \/ v.r # 0 \/ v.micro # 0
      [] v.t = "boolean" -> v.b
      [] OTHER -> TRUE

\* a || b
Or(a, b) == IF Truthy(a) THEN a ELSE b

(***************************************************************************)
(* Post collection.                                                        *)
(***************************************************************************)
PostData(id, content, url, likes, comments, shares, postedAt, media) ==
    [platformPostId |-> id, content |-> content, postUrl |-> url,
     likes |-> likes, comments |-> comments, shares |-> shares,
     postedAt |-> postedAt, mediaUrls |-> media]

PostRow(post, influencerId, t) ==
    [platformPostId |-> post.platformPostId, influencerId |-> influencerId,
     content |-> post.content, postUrl |-> post.postUrl,
     likes |-> post.likes, comments |-> post.comments,
     shares |-> post.shares, postedAt |-> post.postedAt,
     mediaUrls |-> post.mediaUrls, createdAt |-> t]

RowsWithId(coll, id) == {n \in 1..Len(coll) : coll[n].platformPostId = id}

\* required: true on postUrl, postedAt, platformPostId; the validator of a
\* required String path rejects the empty string.
SchemaAccepts(post) ==
    /\ post.postUrl # Str("")
    /\ post.platformPostId # Str("")
    /\ post.postedAt # Absent

\* unique index on platformPostId: a second row with the same id is refused
\* with error 11000.
DuplicateKey(coll, post) == RowsWithId(coll, post.platformPostId) # {}

\* mutant: no unique index on platformPostId
PostModelCreateNoIndex(coll, post, influencerId, t) ==
    IF SchemaAccepts(post)
    THEN Append(coll, PostRow(post, influencerId, t))
    ELSE coll

PostModelCreate(coll, post, influencerId, t) ==
    IF SchemaAccepts(post) /\ ~DuplicateKey(coll, post)
    THEN Append(coll, PostRow(post, influencerId, t))
    ELSE coll

(***************************************************************************)
(* Influencer collection.                                                  *)
(***************************************************************************)
NoTime == -1

NewInfluencer(platform) ==
    [organizationId |-> "o1", platform |-> platform, handle |-> "h0",
     isProfileSyncing |-> FALSE, isPostSyncing |-> FALSE,
     lastSyncAttempt |-> NoTime, lastProfileSync |-> NoTime,
     name |-> Str("n0"), followerCount |-> Absent, verified |-> Bool(FALSE)]

Syncing(coll, kind, id) ==
    IF kind = "profile" THEN coll[id].isProfileSyncing ELSE coll[id].isPostSyncing

\* updateOne({_id}, {$set: {is<K>Syncing: v}}): no effect when no record matches
SetSyncing(coll, kind, id, v) ==
    IF id \notin DOMAIN coll THEN coll
    ELSE IF kind = "profile"
         THEN [coll EXCEPT ![id].isProfileSyncing = v]
         ELSE [coll EXCEPT ![id].isPostSyncing = v]

\* an update that writes every field of the incoming data, present or not
updateInfluencerProfileAllFields(coll, id, updateData, t) ==
    IF id \notin DOMAIN coll THEN coll
    ELSE [coll EXCEPT ![id] =
            [@ EXCEPT !.name = updateData.name,
                      !.followerCount = updateData.followerCount,
                      !.verified = updateData.verified,
                      !.lastProfileSync = t]]

\* ProfileSyncService.updateInfluencerProfile: only the fields that have
\* values are written, plus lastProfileSync.
updateInfluencerProfile(coll, id, updateData, t) ==
    IF id \notin DOMAIN coll THEN coll
    ELSE [coll EXCEPT ![id] =
            [@ EXCEPT
               !.name = IF Truthy(updateData.name) THEN updateData.name ELSE @,
               !.followerCount = IF updateData.followerCount # Absent
                                 THEN updateData.followerCount ELSE @,
               !.verified = IF updateData.verified # Absent
                            THEN updateData.verified ELSE @,
               !.lastProfileSync = t]]

(***************************************************************************)
(* What the platform services hand back to the sync services.              *)
(***************************************************************************)
SupportedBySync == {"X", "LinkedIn"}

ProfileUpdates ==
    {[name |-> Str("n1"), followerCount |-> Num(10), verified |-> Bool(TRUE)],
     [name |-> Str(""), followerCount |-> Absent, verified |-> Absent]}

ScrapedPosts ==
    {PostData(Str("p1"), Str("c1"), Url("H1", "a"), 1200, 0, 0, Ms(1700000000, 0), <<>>),
     PostData(Str("p1"), Str("c1"), Url("H1", "a"), 7, 0, 0, Ms(1700000000, 0), <<>>),
     PostData(Str("p2"), Str(""), Str(""), 0, 0, 0, Ms(1700000000, 0), <<>>)}

ScrapedBatches == SeqsUpTo(ScrapedPosts, MaxBatch)

(***************************************************************************)
(* Sync-service calls.                                                     *)
(***************************************************************************)
NoData == [name |-> Absent, followerCount |-> Absent, verified |-> Absent]

IdleCall ==
    [pc |-> "idle", kind |-> "profile", target |-> GhostId,
     found |-> FALSE, passed |-> FALSE, platform |-> "",
     data |-> NoData, batch |-> <<>>, saved |-> 0, outcome |-> "", http |-> 0]

\* the call is past the is<K>Syncing guard and has not yet cleared the flag
InFlight(c, kind, id) ==
    /\ sync[c].kind = kind
    /\ sync[c].target = id
    /\ sync[c].passed
    /\ sync[c].pc \in {"setflag", "scrape", "update", "save", "finally"}

\* a direct call of ProfileSyncService.syncInfluencerProfile or
\* PostSyncService.syncInfluencerPosts (controllers, scheduled job,
\* syncInfluencerData)
SyncStart(c, kind, id) ==
    /\ sync[c].pc = "idle"
    /\ sync' = [sync EXCEPT ![c] = [IdleCall EXCEPT !.pc = "find", !.kind = kind, !.target = id]]
    /\ UNCHANGED <<influencers, posts, scrapJobs, scrapers, now, hook, applied, pipeline>>

\* InfluencerService.syncInfluencerPosts: 404, 409, or start the post sync
\* in the background and answer at once
RequestPostSync(c, id) ==
    /\ sync[c].pc = "idle"
    /\ sync' = [sync EXCEPT ![c] =
          IF id \notin DOMAIN influencers
          THEN [IdleCall EXCEPT !.pc = "done", !.kind = "posts", !.target = id,
                                !.outcome = "http404", !.http = 404]
          ELSE IF influencers[id].isPostSyncing
          THEN [IdleCall EXCEPT !.pc = "done", !.kind = "posts", !.target = id,
                                !.found = TRUE, !.outcome = "http409", !.http = 409]
          ELSE [IdleCall EXCEPT !.pc = "find", !.kind = "posts", !.target = id,
                                !.http = 200]]
    /\ UNCHANGED <<influencers, posts, scrapJobs, scrapers, now, hook, applied, pipeline>>

\* findById, then the not-found test and the is<K>Syncing guard
SyncFind(c) ==
    /\ sync[c].pc = "find"
    /\ LET id == sync[c].target IN
       sync' = [sync EXCEPT ![c] =
          IF id \notin DOMAIN influencers
          THEN [@ EXCEPT !.pc = "finally", !.outcome = "notfound"]
          ELSE IF Syncing(influencers, sync[c].kind, id)
          THEN [@ EXCEPT !.pc = "finally", !.found = TRUE, !.outcome = "rejected"]
          ELSE [@ EXCEPT !.pc = "setflag", !.found = TRUE, !.passed = TRUE,
                         !.platform = influencers[id].platform]]
    /\ UNCHANGED <<influencers, posts, scrapJobs, scrapers, now, hook, applied, pipeline>>

\* updateOne: is<K>Syncing = true, lastSyncAttempt = now; then the switch on
\* the platform
SyncSetFlag(c) ==
    /\ sync[c].pc = "setflag"
    /\ LET id == sync[c].target
           set == SetSyncing(influencers, sync[c].kind, id, TRUE) IN
       influencers' = IF id \in DOMAIN set
                      THEN [set EXCEPT ![id].lastSyncAttempt = now]
                      ELSE set
    /\ sync' = [sync EXCEPT ![c] =
          IF sync[c].platform \in SupportedBySync
          THEN [@ EXCEPT !.pc = "scrape"]
          ELSE IF sync[c].kind = "profile"
               THEN [@ EXCEPT !.pc = "finally", !.outcome = "unsupported"]
               ELSE [@ EXCEPT !.pc = "save", !.outcome = "unsupported"]]
    /\ UNCHANGED <<posts, scrapJobs, scrapers, now, hook, applied, pipeline>>

\* syncXProfile / syncLinkedInProfile: profile data, or null when the fetch
\* failed or found nothing
SyncScrapeProfile(c) ==
    /\ sync[c].pc = "scrape"
    /\ sync[c].kind = "profile"
    /\ \/ \E d \in ProfileUpdates :
             sync' = [sync EXCEPT ![c] = [@ EXCEPT !.pc = "update", !.data = d]]
       \/ sync' = [sync EXCEPT ![c] = [@ EXCEPT !.pc = "finally", !.outcome = "nothing"]]
    /\ UNCHANGED <<influencers, posts, scrapJobs, scrapers, now, hook, applied, pipeline>>

\* updateInfluencerProfile: the update is written, or the database call
\* throws and the error is rethrown into the catch of syncInfluencerProfile
SyncUpdateProfile(c) ==
    /\ sync[c].pc = "update"
    /\ \/ /\ influencers' = updateInfluencerProfile(influencers, sync[c].target, sync[c].data, now)
          /\ sync' = [sync EXCEPT ![c] = [@ EXCEPT !.pc = "finally", !.outcome = "ok"]]
       \/ /\ sync' = [sync EXCEPT ![c] = [@ EXCEPT !.pc = "finally", !.outcome = "threw"]]
          /\ UNCHANGED influencers
    /\ UNCHANGED <<posts, scrapJobs, scrapers, now, hook, applied, pipeline>>

\* syncXPosts / syncLinkedInPosts: the formatted posts ([] on any error)
SyncScrapePosts(c) ==
    /\ sync[c].pc = "scrape"
    /\ sync[c].kind = "posts"
    /\ \E b \in ScrapedBatches :
          sync' = [sync EXCEPT ![c] =
             [@ EXCEPT !.pc = "save", !.batch = b,
                       !.outcome = IF b = <<>> THEN "nothing" ELSE "ok"]]
    /\ UNCHANGED <<influencers, posts, scrapJobs, scrapers, now, hook, applied, pipeline>>

\* history of the applications of a post: the rows with its id after the
\* first application, and whether it was applied again
RowsOf(coll, id) == {coll[n] : n \in RowsWithId(coll, id)}

Record(hist, post, coll) ==
    IF post \in DOMAIN hist
    THEN [hist EXCEPT ![post].twice = TRUE]
    ELSE hist @@ (post :> [after |-> RowsOf(coll, post.platformPostId), twice |-> FALSE])

\* one turn of the loop that saves the posts: PostModel.create, every error
\* swallowed, savedCount counted on success
SavePost(c) ==
    /\ sync[c].pc = "save"
    /\ sync[c].batch # <<>>
    /\ Len(posts) < MaxPosts
    /\ LET post == Head(sync[c].batch)
           created == PostModelCreate(posts, post, sync[c].target, now) IN
       /\ posts' = created
       /\ sync' = [sync EXCEPT ![c] =
             [@ EXCEPT !.batch = Tail(@),
                       !.saved = IF created # posts THEN @ + 1 ELSE @]]
    /\ UNCHANGED <<influencers, scrapJobs, scrapers, now, hook, pipeline>>

SyncSavePost(c) == SavePost(c) /\ UNCHANGED applied

\* the same step, with the application recorded in the history
SyncSavePostRecorded(c) ==
    /\ SavePost(c)
    /\ applied' = Record(applied, Head(sync[c].batch), posts')

SyncSaveDone(c) ==
    /\ sync[c].pc = "save"
    /\ sync[c].batch = <<>>
    /\ sync' = [sync EXCEPT ![c] = [@ EXCEPT !.pc = "finally"]]
    /\ UNCHANGED <<influencers, posts, scrapJobs, scrapers, now, hook, applied, pipeline>>

\* mutant: the flag is cleared at the end of the try block instead of in a
\* finally block, so an exception skips it
FinallyEffectSkippedOnThrow(c) ==
    IF sync[c].outcome = "threw" THEN influencers
    ELSE SetSyncing(influencers, sync[c].kind, sync[c].target, FALSE)

\* the finally block: updateOne is<K>Syncing = false
FinallyEffect(c) == SetSyncing(influencers, sync[c].kind, sync[c].target, FALSE)

\* the finally block runs and the call returns
SyncFinally(c) ==
    /\ sync[c].pc = "finally"
    /\ influencers' = FinallyEffect(c)
    /\ sync' = [sync EXCEPT ![c] = [@ EXCEPT !.pc = "done"]]
    /\ UNCHANGED <<posts, scrapJobs, scrapers, now, hook, applied, pipeline>>

\* the caller has the result
SyncReturn(c) ==
    /\ sync[c].pc = "done"
    /\ sync' = [sync EXCEPT ![c] = IdleCall]
    /\ UNCHANGED <<influencers, posts, scrapJobs, scrapers, now, hook, applied, pipeline>>

Tick ==
    /\ now < MaxTime
    /\ now' = now + 1
    /\ UNCHANGED <<influencers, posts, scrapJobs, scrapers, sync, hook, applied, pipeline>>

NoHook ==
    [jobId |-> 0, payload |-> Absent, time |-> 0, outcome |-> "none",
     resolved |-> FALSE, threw |-> FALSE, message |-> "", calls |-> <<>>]

\* private static scrapers = new Map(): nothing cached, nothing constructed
NoScrapers == [cache |-> <<>>, built |-> 0]

\* addInfluencer calls that may overlap
Adders == {"a1", "a2"}
NoTriple == [organizationId |-> "", platform |-> "", handle |-> ""]
IdleAdd ==
    [pc |-> "idle", version |-> "", triple |-> NoTriple, named |-> FALSE,
     status |-> 0, error |-> "", created |-> "", target |-> ""]

IdleInit ==
    [pc |-> "idle", jobType |-> "", influencerId |-> "", token |-> TRUE, jobId |-> 0,
     error |-> ""]
NoTrigger == [call |-> IdleInit, requests |-> <<>>]

IdleConsumer == [pc |-> "idle", message |-> Absent, outcome |-> "", acks |-> 0]
NoCallback == [url |-> Absent, body |-> Absent, status |-> 0, published |-> Absent]
\* pubsubConsumer: the static field of ScrapWebhookPubsubConsumer; listeners:
\* the 'message' listeners registered for the subscription; starts: the
\* startListener calls made
\* request: the HTTP request the relay is serving, step by step
NoRequest == [pc |-> "none", url |-> Absent, body |-> Absent, status |-> 0]
NoRelay ==
    [topic |-> <<>>, last |-> NoCallback, consumer |-> IdleConsumer,
     pubsubConsumer |-> [t |-> "null"], listeners |-> 0, starts |-> 0,
     request |-> NoRequest]

NoFactory ==
    [version |-> "unset", platform |-> "", threw |-> FALSE, hit |-> FALSE, instance |-> 0,
     returned |-> {}, constructed |-> {}]

\* no pure function has been called
NoProbe == [fn |-> "", input |-> Absent, time |-> 0, calls |-> 0, output |-> Absent]

Init ==
    /\ influencers = [i \in InflIds |->
                        NewInfluencer(IF i = "i1" THEN "LinkedIn" ELSE "YouTube")]
    /\ posts = <<>>
    /\ scrapJobs = <<>>
    /\ scrapers = NoScrapers
    /\ now = 0
    /\ sync = [c \in Calls |-> IdleCall]
    /\ hook = NoHook
    /\ applied = <<>>
    /\ adds = [a \in Adders |-> IdleAdd]
    /\ trigger = NoTrigger
    /\ relay = NoRelay
    /\ factory = NoFactory
    /\ probe = NoProbe

NextSync ==
    \/ \E c \in Calls, k \in Kinds, i \in InflIds \cup {GhostId} : SyncStart(c, k, i)
    \/ \E c \in Calls, i \in InflIds \cup {GhostId} : RequestPostSync(c, i)
    \/ \E c \in Calls : SyncFind(c)
    \/ \E c \in Calls : SyncSetFlag(c)
    \/ \E c \in Calls : SyncScrapeProfile(c)
    \/ \E c \in Calls : SyncUpdateProfile(c)
    \/ \E c \in Calls : SyncScrapePosts(c)
    \/ \E c \in Calls : SyncSavePost(c)
    \/ \E c \in Calls : SyncSaveDone(c)
    \/ \E c \in Calls : SyncFinally(c)
    \/ \E c \in Calls : SyncReturn(c)

SpecSync == Init /\ [][NextSync]_vars

\* the post syncs alone, with the history of the applied posts
NextSave ==
    \/ \E c \in Calls, i \in InflIds \cup {GhostId} : SyncStart(c, "posts", i)
    \/ \E c \in Calls : SyncFind(c)
    \/ \E c \in Calls : SyncSetFlag(c)
    \/ \E c \in Calls : SyncScrapePosts(c)
    \/ \E c \in Calls : SyncSavePostRecorded(c)
    \/ \E c \in Calls : SyncSaveDone(c)
    \/ \E c \in Calls : SyncFinally(c)
    \/ \E c \in Calls : SyncReturn(c)

SpecSave == Init /\ [][NextSave]_vars

(***************************************************************************)
(* The LinkedIn adapter: parsing of provider payloads                      *)
(* (LinkedInScraper in profileScraperService.ts).                          *)
(***************************************************************************)
Null == [t |-> "null"]
Array(items) == [t |-> "array", items |-> items]
IsArray(v) == v.t = "array"

\* a JSON object of the provider: only the properties it has
Object(fields) == [t |-> "object", fields |-> fields]

\* a property read: undefined when the value has no such property
Get(v, f) ==
    IF v.t = "object" /\ f \in DOMAIN v.fields THEN v.fields[f] ELSE Absent

\* _parseNumber: a number is returned as it is; a string matching
\* /^([\d.]+)([KkMmBb])?$/ is scaled and rounded; anything else is 0
parseNumber(v) ==
    CASE v.t = "number" -> v.n
      [] v.t = "numstr" ->
           IF v.suffix \in {"K", "k"} THEN (v.whole * 10 + v.tenths) * 100
           ELSE IF v.suffix \in {"M", "m"} THEN (v.whole * 10 + v.tenths) * 100000
           ELSE IF v.suffix \in {"B", "b"} THEN (v.whole * 10 + v.tenths) * 100000000
           ELSE v.whole + (IF v.tenths >= 5 THEN 1 ELSE 0)
      [] OTHER -> 0

\* value > 946684800000, for a number that fits the checker's integers
AfterY2K(n) ==
    \/ n \div 1000 > Y2KThousands
    \/ n \div 1000 = Y2KThousands /\ n % 1000 > 0

\* parseDate: epoch milliseconds; the current time when the value is missing
\* or is not a date
parseDate(v, t) ==
    IF ~Truthy(v) THEN DateNow(t)
    ELSE CASE v.t = "number" ->
                IF AfterY2K(v.n) THEN Ms(v.n \div 1000, v.n % 1000) ELSE Ms(v.n, 0)
           [] v.t = "decimal" ->
                IF \/ v.k > Y2KThousands
                   \/ v.k = Y2KThousands /\ (v.r > 0 \/ v.micro > 0)
                THEN MsFrac(v.k, v.r, v.micro)
                ELSE MsFrac(v.k * 1000 + v.r, v.micro \div 1000, (v.micro % 1000) * 1000)
           [] v.t = "date" -> v.ms
           [] OTHER -> DateNow(t)

\* generateFallbackId: 'linkedin_' + the first 32 base64 characters (the first
\* 24 bytes) of the url, or of the current time in ms when there is no url
generateFallbackId(post, t) ==
    LET source == Or(Or(Get(post, "url"), Get(post, "post_url")), [t |-> "clock", ms |-> DateNow(t)]) IN
    IF source.t = "url"
    THEN [t |-> "fallback", head |-> source.head]
    ELSE IF source.t = "clock"
    THEN [t |-> "fallback", clock |-> source.ms]
    ELSE [t |-> "fallback", text |-> source]

MediaUrlOf(item) ==
    IF item.t \in {"url", "string"} THEN item
    ELSE IF Truthy(Get(item, "url")) THEN Get(item, "url")
    ELSE IF Truthy(Get(item, "image_url")) THEN Get(item, "image_url")
    ELSE Absent

\* _parseMediaUrls
parseMediaUrls(post) ==
    LET media == Or(Or(Or(Or(Get(post, "images"), Get(post, "media")), Get(post, "media_urls")),
                       Get(post, "attachments")), Array(<<>>))
        fromList == IF IsArray(media)
                    THEN SelectSeq([n \in 1..Len(media.items) |-> MediaUrlOf(media.items[n])],
                                   LAMBDA u : u # Absent)
                    ELSE <<>>
    IN  IF Truthy(Get(post, "image_url")) /\ Get(post, "image_url").t \in {"url", "string"}
        THEN Append(fromList, Get(post, "image_url"))
        ELSE fromList

\* parsePostData
parsePostData(post, t) ==
    PostData(Or(Or(Get(post, "post_id"), Get(post, "id")), generateFallbackId(post, t)),
             Or(Get(post, "post_text_html"), Str("")),
             Or(Or(Or(Get(post, "url"), Get(post, "post_url")), Get(post, "link")), Str("")),
             parseNumber(Or(Or(Get(post, "likes"), Get(post, "reactions")), Get(post, "like_count"))),
             parseNumber(Or(Or(Get(post, "comments"), Get(post, "num_comments")), Get(post, "comment_count"))),
             parseNumber(Or(Or(Get(post, "shares"), Get(post, "reposts")), Get(post, "share_count"))),
             parseDate(Or(Or(Get(post, "posted_at"), Get(post, "date_posted")), Get(post, "timestamp")), t),
             parseMediaUrls(post))

\* parseProfileData
parseProfileData(payload) ==
    [name |-> Or(Or(Or(Get(payload, "name"), Get(payload, "full_name")), Get(payload, "title")), Str("")),
     profileUrl |-> Or(Or(Or(Get(payload, "url"), Get(payload, "profile_url")), Get(payload, "input_url")), Str("")),
     avatarUrl |-> Or(Or(Or(Get(payload, "avatar"), Get(payload, "profile_picture")), Get(payload, "image_url")),
                      Get(payload, "photo_url")),
     platformUserId |-> Or(Or(Get(payload, "profile_id"), Get(payload, "user_id")), Get(payload, "linkedin_id")),
     bio |-> Or(Or(Get(payload, "headline"), Get(payload, "summary")), Get(payload, "about")),
     followerCount |-> Num(parseNumber(Or(Or(Get(payload, "followers"), Get(payload, "follower_count")),
                                          Get(payload, "connections")))),
     verified |-> Or(Get(payload, "verified"), Bool(FALSE)),
     location |-> Or(Or(Get(payload, "city"), Get(payload, "location")), Str(""))]

(***************************************************************************)
(* ScraperFactory.getScraper (scraperFactory.ts).                          *)
(***************************************************************************)
\* normalizePlatform: lower case, non-alphanumerics removed
normalizePlatform(platform) ==
    CASE platform \in {"LinkedIn", "linkedin", "Linked-In"} -> "linkedin"
      [] platform \in {"X", "x"} -> "x"
      [] platform \in {"YouTube", "youtube"} -> "youtube"
      [] platform \in {"Instagram", "instagram"} -> "instagram"
      [] OTHER -> platform

\* a cached instance is returned; otherwise only LinkedIn is constructed
getScraperThrows(cache, platform) ==
    /\ normalizePlatform(platform) \notin DOMAIN cache.cache
    /\ platform # "LinkedIn"

\* a factory that constructs an instance on every call that does not throw
getScraperCacheAlwaysNew(cache, platform) ==
    IF getScraperThrows(cache, platform) THEN cache
    ELSE [cache |-> (normalizePlatform(platform) :> cache.built + 1) @@ cache.cache,
          built |-> cache.built + 1]

\* the factory after the call: a new instance is constructed and cached under
\* the normalized key when none is cached and the platform is LinkedIn
getScraperCache(cache, platform) ==
    IF getScraperThrows(cache, platform) \/ normalizePlatform(platform) \in DOMAIN cache.cache
    THEN cache
    ELSE [cache |-> cache.cache @@ (normalizePlatform(platform) :> cache.built + 1),
          built |-> cache.built + 1]

(***************************************************************************)
(* Job ledger (ScrapperServiceBase.createScrapJob) and the trigger calls   *)
(* of the adapter.                                                         *)
(***************************************************************************)
NoMessage == ""

\* new ScrapJobModel({...}).save(): the status written is 'pending' and the
\* platform is PlatformType.LinkedIn, whatever the input says (startedAt,
\* written once here and read nowhere, is left out of the row)
createScrapJob(jobType, influencerId, platform, status, t) ==
    [influencerId |-> influencerId, platform |-> "LinkedIn", jobType |-> jobType,
     status |-> "pending",
     completedAt |-> NoTime, errorMessage |-> NoMessage,
     metadata |-> [platform |-> platform]]

\* LinkedInScraper.initScrapProfile / initScrapPosts, reached for an influencer
\* whose platform resolves to this adapter: the job row is created, then the
\* provider's trigger API is called (it may fail; the row stays)
InitScrap(jobType, influencerId) ==
    /\ Len(scrapJobs) < MaxJobs
    /\ influencerId \in DOMAIN influencers
    /\ influencers[influencerId].platform = "LinkedIn"
    /\ scrapJobs' = Append(scrapJobs,
                           createScrapJob(jobType, influencerId, "LinkedIn", "processing", now))
    /\ UNCHANGED <<influencers, posts, scrapers, now, sync, hook, applied, pipeline>>

(***************************************************************************)
(* Applying parsed data.  PostSyncService.syncScrapedPostData and          *)
(* ProfileSyncService.syncScrapedProfileData are called by the handler but *)
(* are not part of the source tree; they follow spec.md section 4.2.       *)
(***************************************************************************)
\* look up the Post by platformPostId; insert when absent, otherwise update
\* content, media, engagement counters and postedAt in place
syncScrapedPostData(coll, influencerId, postData, t) ==
    LET hits == RowsWithId(coll, postData.platformPostId) IN
    IF hits = {} THEN Append(coll, PostRow(postData, influencerId, t))
    ELSE LET hit == CHOOSE n \in hits : \A m \in hits : n <= m IN
         [coll EXCEPT ![hit] =
            [@ EXCEPT !.content = postData.content,
                      !.mediaUrls = postData.mediaUrls,
                      !.likes = postData.likes,
                      !.comments = postData.comments,
                      !.shares = postData.shares,
                      !.postedAt = postData.postedAt]]

\* partial update: only the fields that are not undefined are written, and
\* lastProfileSync is stamped
syncScrapedProfileData(coll, influencerId, profileData, t) ==
    IF influencerId \notin DOMAIN coll THEN coll
    ELSE [coll EXCEPT ![influencerId] =
            [@ EXCEPT
               !.name = IF profileData.name # Absent THEN profileData.name ELSE @,
               !.followerCount = IF profileData.followerCount # Absent
                                 THEN profileData.followerCount ELSE @,
               !.verified = IF profileData.verified # Absent
                            THEN profileData.verified ELSE @,
               !.lastProfileSync = t]]

(***************************************************************************)
(* ScrapperWebhookHandler.handleWebhook.  The repository holds two copies   *)
(* of the class, which differ in the 'posts' branch only: one opens nested *)
(* arrays and accepts a bare object, the other walks payload.length.  A    *)
(* build has one of them; version says which one handles the message.      *)
(* One invocation is one step; acc                                         *)
(* carries the collections as the loops change them, the log of apply      *)
(* calls made, and the exception (if any) that ended the try block.        *)
(* failCall is the number of the apply call that throws (0: none does).    *)
(***************************************************************************)
Throw(acc, message) == [acc EXCEPT !.threw = TRUE, !.message = message]

\* a loop body that goes on with the next element after a failure
ApplyPostKeepsGoing(acc, raw, influencerId, t, failCall) ==
    IF raw.t \in {"null", "undefined"} THEN Throw(acc, "TypeError")
    ELSE LET postsData == parsePostData(raw, t)
             called == [acc EXCEPT !.calls = Append(@, postsData)]
         IN  IF Len(called.calls) = failCall THEN Throw(called, "ApplyError")
             ELSE [called EXCEPT
                     !.posts = syncScrapedPostData(@, influencerId, postsData, t)]

\* scrapper.parsePostData(post) followed by service.syncScrapedPostData(...)
ApplyPost(acc, raw, influencerId, t, failCall) ==
    IF acc.threw THEN acc
    ELSE IF raw.t \in {"null", "undefined"} THEN Throw(acc, "TypeError")
    ELSE LET postsData == parsePostData(raw, t)
             called == [acc EXCEPT !.calls = Append(@, postsData)]
         IN  IF Len(called.calls) = failCall THEN Throw(called, "ApplyError")
             ELSE [called EXCEPT
                     !.posts = syncScrapedPostData(@, influencerId, postsData, t)]

RECURSIVE ForEachPost(_, _, _, _, _)
\* for (const post of item) { ... }
ForEachPost(acc, items, influencerId, t, failCall) ==
    IF items = <<>> THEN acc
    ELSE ForEachPost(ApplyPost(acc, Head(items), influencerId, t, failCall),
                     Tail(items), influencerId, t, failCall)

\* one element of the payload array: a nested array of posts, or one post
ApplyItem(acc, item, influencerId, t, failCall) ==
    IF acc.threw THEN acc
    ELSE IF IsArray(item) THEN ForEachPost(acc, item.items, influencerId, t, failCall)
    ELSE ApplyPost(acc, item, influencerId, t, failCall)

RECURSIVE ForEachItem(_, _, _, _, _)
\* for (let i = 0; i < payload.length; i++) { ... }
ForEachItem(acc, items, influencerId, t, failCall) ==
    IF items = <<>> THEN acc
    ELSE ForEachItem(ApplyItem(acc, Head(items), influencerId, t, failCall),
                     Tail(items), influencerId, t, failCall)

\* the 'posts' branch of the handler that opens nested arrays
ProcessPosts(acc, payload, influencerId, t, failCall) ==
    IF ~IsArray(payload) THEN ApplyPost(acc, payload, influencerId, t, failCall)
    ELSE ForEachItem(acc, payload.items, influencerId, t, failCall)

\* the 'posts' branch of the handler in scrapperWebhookHandler.ts:
\* for (i < payload.length) parsePostData(payload[i]), whatever payload[i] is
ProcessPostsFlat(acc, payload, influencerId, t, failCall) ==
    IF payload.t \in {"null", "undefined"} THEN Throw(acc, "TypeError")
    ELSE IF IsArray(payload) THEN ForEachPost(acc, payload.items, influencerId, t, failCall)
    ELSE acc

\* the repository holds two copies of the handler class
HandlerVersions == {"nested", "flat"}

\* scrapper.parseProfileData(payload[i]) followed by syncScrapedProfileData
ApplyProfile(acc, raw, influencerId, t, failCall) ==
    IF acc.threw THEN acc
    ELSE IF raw.t \in {"null", "undefined"} THEN Throw(acc, "TypeError")
    ELSE LET profileData == parseProfileData(raw)
             called == [acc EXCEPT !.calls = Append(@, profileData)]
         IN  IF Len(called.calls) = failCall THEN Throw(called, "ApplyError")
             ELSE [called EXCEPT
                     !.influencers =
                         syncScrapedProfileData(@, influencerId, profileData, t)]

RECURSIVE ForEachProfile(_, _, _, _, _)
ForEachProfile(acc, items, influencerId, t, failCall) ==
    IF items = <<>> THEN acc
    ELSE ForEachProfile(ApplyProfile(acc, Head(items), influencerId, t, failCall),
                        Tail(items), influencerId, t, failCall)

\* the 'profile' branch: payload.length is undefined for a bare object (the
\* loop body never runs) and reading it throws for null
ProcessProfiles(acc, payload, influencerId, t, failCall) ==
    IF payload.t \in {"null", "undefined"} THEN Throw(acc, "TypeError")
    ELSE IF IsArray(payload) THEN ForEachProfile(acc, payload.items, influencerId, t, failCall)
    ELSE acc

\* a lookup that falls back to the oldest job
findOneOrFirst(coll, jobId) ==
    IF jobId \in 1..Len(coll) THEN jobId ELSE IF Len(coll) > 0 THEN 1 ELSE 0

\* ScrapJobModel.findOne({ jobId }): the row's position stands for its uuid;
\* 0 when no row carries the id
findOne(coll, jobId) == IF jobId \in 1..Len(coll) THEN jobId ELSE 0

\* the catch block with a row that forgets the failure
catchBlockNoSave(job, message) == job

\* catch (err) { scrapJob.status = 'failed'; scrapJob.errorMessage = ...; save() }
catchBlock(job, message) ==
    [job EXCEPT !.status = "failed", !.errorMessage = message]

\* completion that leaves the timestamp out
markCompletedNoTimestamp(job, t) == [job EXCEPT !.status = "completed"]

\* scrapJob.completedAt = new Date(); scrapJob.status = 'completed'; save()
markCompleted(job, t) == [job EXCEPT !.completedAt = t, !.status = "completed"]

handleWebhook(version, jobId, payload, failCall) ==
    LET found == findOne(scrapJobs, jobId) IN
    IF found = 0
    THEN /\ hook' = [jobId |-> jobId, payload |-> payload, time |-> now,
                     outcome |-> "notfound",
                     resolved |-> FALSE, threw |-> FALSE, message |-> NoMessage,
                     calls |-> <<>>]
         /\ UNCHANGED <<influencers, posts, scrapJobs, scrapers, now, sync, applied>>
    ELSE LET scrapJob == scrapJobs[found]
             owner == scrapJob.influencerId
             start == [posts |-> posts, influencers |-> influencers, calls |-> <<>>,
                       threw |-> FALSE, message |-> NoMessage]
             try == IF getScraperThrows(scrapers, scrapJob.platform)
                    THEN Throw(start, "Unsupported platform")
                    ELSE IF scrapJob.jobType = "profile"
                    THEN ProcessProfiles(start, payload, owner, now, failCall)
                    ELSE IF scrapJob.jobType = "posts"
                    THEN IF version = "nested"
                         THEN ProcessPosts(start, payload, owner, now, failCall)
                         ELSE ProcessPostsFlat(start, payload, owner, now, failCall)
                    ELSE start
         IN  \E acc \in {try} :
             /\ Len(acc.posts) <= MaxPosts
             /\ posts' = acc.posts
             /\ influencers' = acc.influencers
             /\ scrapers' = getScraperCache(scrapers, scrapJob.platform)
             /\ scrapJobs' = [scrapJobs EXCEPT ![found] =
                                IF acc.threw THEN catchBlock(@, acc.message)
                                ELSE markCompleted(@, now)]
             /\ hook' = [jobId |-> jobId, payload |-> payload, time |-> now,
                         outcome |-> IF acc.threw THEN "failed" ELSE "completed",
                         resolved |-> TRUE, threw |-> acc.threw,
                         message |-> acc.message, calls |-> acc.calls]
             /\ UNCHANGED <<now, sync, applied>>

(***************************************************************************)
(* Webhook deliveries.                                                     *)
(***************************************************************************)
PostA ==
    Object([post_id |-> Str("p1"), url |-> Url("h1", "a"),
            likes |-> NumStr(1, 2, "K"), posted_at |-> Num(1700000000)])
\* the same post under its other field names, without a posted-at value
PostB == Object([id |-> Str("p1"), post_url |-> Url("h1", "a"), reactions |-> Num(7)])
\* no provider id, no url/post_url and no posted-at value
PostC == Object([link |-> Url("h2", "b")])
ProfileA == Object([full_name |-> Str("n1"), followers |-> NumStr(1, 5, "K")])

RawPosts == {PostA, PostB, PostC}
NestedArrays == {Array(s) : s \in SeqsUpTo(RawPosts, MaxNested)}
Items == RawPosts \cup {Null} \cup NestedArrays
\* every shape of body: a bare object, null, and arrays of objects, nulls
\* and nested arrays
Payloads == RawPosts \cup {Null} \cup {Array(s) : s \in SeqsUpTo(Items, MaxPayload)}

\* the bodies delivered while jobs, clock and repeated deliveries interleave:
\* the provider answers a trigger with records of the dataset the trigger
\* named, so a known job receives bodies of its own type
PostPayloads == {Array(<<PostA, Null>>), Array(<<PostB, PostC>>)}
ProfilePayloads == {Array(<<ProfileA>>), Array(<<ProfileA, Null>>)}
HookPayloads(jobId) ==
    IF jobId \notin 1..Len(scrapJobs) THEN {Array(<<PostA>>)}   \* never read
    ELSE IF scrapJobs[jobId].jobType = "posts" THEN PostPayloads
    ELSE ProfilePayloads

\* no apply call throws, or the first one does
FailCalls == {0, 1}

\* the consumer hands one message to the handler
Deliver(version, jobId, payload, failCall) ==
    /\ handleWebhook(version, jobId, payload, failCall)
    /\ UNCHANGED pipeline

\* the first message ever handled
FirstDelivery(version, jobId, payload) ==
    /\ hook = NoHook
    /\ handleWebhook(version, jobId, payload, 0)
    /\ UNCHANGED pipeline

NextHook ==
    \/ \E jobType \in Kinds, i \in InflIds : InitScrap(jobType, i)
    \/ Tick
    \/ \E version \in HandlerVersions, jobId \in 1..(MaxJobs + 1), failCall \in FailCalls :
          \E payload \in HookPayloads(jobId) : Deliver(version, jobId, payload, failCall)

SpecHook == Init /\ [][NextHook]_vars

NextShape ==
    \/ \E jobType \in Kinds, i \in InflIds : InitScrap(jobType, i)
    \/ \E version \in HandlerVersions, jobId \in 1..(MaxJobs + 1),
          payload \in Payloads \cup {ProfileA} :
          FirstDelivery(version, jobId, payload)

SpecShape == Init /\ [][NextShape]_vars

(***************************************************************************)
(* Claims about the sync services, checked under SpecSync.                 *)
(***************************************************************************)

\* C1: for every influencer and each sync kind, at most one sync of that
\* kind is in flight (past the guard, flag not yet cleared) in every
\* reachable state, also when two calls overlap.
C1_AtMostOneInFlight ==
    \A i \in InflIds, k \in Kinds :
        Cardinality({c \in Calls : InFlight(c, k, i)}) <= 1

\* C2: a sync call that finds is<K>Syncing already true is rejected without
\* triggering a scrape, and the flag is still true when the rejected call
\* returns.
C2_RejectedLeavesFlag ==
    [][\A c \in Calls :
          (sync[c].outcome \in {"rejected", "http409"} \/ sync'[c].outcome = "http409")
          /\ sync[c].pc # "done"
          => /\ sync'[c].pc \in {"finally", "done"}
             /\ (sync'[c].pc = "done"
                 /\ Syncing(influencers, sync'[c].kind, sync'[c].target))
                => Syncing(influencers', sync'[c].kind, sync'[c].target)]_vars

\* C3: whenever a sync call that passed the guard returns (the scrape gave
\* data, gave nothing, or the update threw), the is<K>Syncing flag of its
\* influencer is false.
C3_FlagClearedOnReturn ==
    [][\A c \in Calls :
          (sync[c].passed /\ sync[c].pc # "done" /\ sync'[c].pc = "done"
           /\ sync[c].target \in DOMAIN influencers')
          => ~Syncing(influencers', sync[c].kind, sync[c].target)]_vars

C3_Witness ==
    \E c \in Calls :
        /\ sync[c].pc = "done"
        /\ sync[c].passed
        /\ sync[c].outcome = "threw"
        /\ ~Syncing(influencers, sync[c].kind, sync[c].target)

Terminal == {"completed", "failed"}

\* C4: once a ScrapJob's status is completed or failed, no later step --
\* a duplicate or late handleWebhook included -- changes it.
C4_TerminalStatusFrozen ==
    [][\A j \in 1..Len(scrapJobs) :
          scrapJobs[j].status \in Terminal
          => scrapJobs'[j].status = scrapJobs[j].status]_vars

C6_CompletedIffAllSucceeded ==
    hook.outcome \in Terminal =>
        /\ ~hook.threw => /\ scrapJobs[hook.jobId].status = "completed"
                          /\ scrapJobs[hook.jobId].completedAt = hook.time
        /\ hook.threw => scrapJobs[hook.jobId].status # "completed"

C6_Witness ==
    /\ hook.outcome = "completed"
    /\ Len(hook.calls) = 2
    /\ scrapJobs[hook.jobId].status = "completed"
    /\ scrapJobs[hook.jobId].completedAt # NoTime

\* C7: an invocation whose job id matches no ScrapJob returns having
\* resolved no adapter and having changed no job, influencer or post.
C7_UnknownJobIgnored ==
    [][(hook' # hook /\ hook'.jobId \notin 1..Len(scrapJobs))
       => /\ hook'.outcome = "notfound"
          /\ ~hook'.resolved
          /\ UNCHANGED <<scrapJobs, influencers, posts, scrapers>>]_vars

\* an unknown id delivered while a job and a post exist
C7_Witness ==
    /\ hook.outcome = "notfound"
    /\ Len(scrapJobs) >= 1
    /\ hook.jobId > Len(scrapJobs)
    /\ posts # <<>>

RECURSIVE Flatten(_)
\* the elements of a payload array with nested arrays opened, in order
Flatten(items) ==
    IF items = <<>> THEN <<>>
    ELSE (IF IsArray(Head(items)) THEN Head(items).items ELSE <<Head(items)>>)
         \o Flatten(Tail(items))

\* the post objects of a body: the body itself when it is not an array
PostObjects(payload) ==
    IF IsArray(payload) THEN Flatten(payload.items) ELSE <<payload>>

\* C8: a posts job whose payload is handled without error makes exactly one
\* upsert call per post object of the payload, in payload order, whether the
\* payload is a bare object, a flat array or an array with nested arrays.
C8_OneUpsertPerPostObject ==
    (hook.outcome = "completed" /\ scrapJobs[hook.jobId].jobType = "posts")
    => LET objects == PostObjects(hook.payload) IN
       /\ Len(hook.calls) = Len(objects)
       /\ \A n \in 1..Len(objects) :
             hook.calls[n] = parsePostData(objects[n], hook.time)

\* [[postA, postB], postC] gave three upserts
C8_Witness ==
    /\ hook.outcome = "completed"
    /\ scrapJobs[hook.jobId].jobType = "posts"
    /\ hook.payload = Array(<<Array(<<PostA, PostB>>), PostC>>)
    /\ Len(hook.calls) = 3

\* C10: handling the same message (same job id, same body) a second time,
\* both times without error, leaves the Post collection and the job's status
\* as the first handling left them.
C10_RedeliveryChangesNothing ==
    [][(/\ hook' # hook
        /\ hook'.jobId = hook.jobId
        /\ hook'.payload = hook.payload
        /\ hook.outcome = "completed"
        /\ hook'.outcome = "completed")
       => /\ posts' = posts
          /\ scrapJobs'[hook.jobId].status = scrapJobs[hook.jobId].status]_vars

(***************************************************************************)
(* Claims about applying scraped posts, checked under SpecSave.            *)
(***************************************************************************)
\* the row carries the scraped values of the mutable fields
TakesValues(row, post) ==
    /\ row.content = post.content
    /\ row.mediaUrls = post.mediaUrls
    /\ row.likes = post.likes
    /\ row.comments = post.comments
    /\ row.shares = post.shares
    /\ row.postedAt = post.postedAt

\* C11: when the post-saving step applies a scraped post whose platformPostId
\* already has a row, the row takes the scraped values of the mutable fields
\* and no row is added; when the id has no row, one row is inserted (for a
\* post that has the fields the schema requires).
C11_UpsertInPlace ==
    [][\A c \in Calls :
          (/\ sync[c].pc = "save"
           /\ sync[c].batch # <<>>
           /\ sync'[c].batch = Tail(sync[c].batch))
          => LET post == Head(sync[c].batch)
                 id == post.platformPostId
             IN  IF RowsWithId(posts, id) # {}
                 THEN /\ Len(posts') = Len(posts)
                      /\ \A n \in RowsWithId(posts', id) : TakesValues(posts'[n], post)
                 ELSE SchemaAccepts(post) => Cardinality(RowsWithId(posts', id)) = 1]_vars


(***************************************************************************)
(* InfluencerService.addInfluencer.  The repository holds two copies: one  *)
(* that throws (unnamed/part_002) and one that returns result objects      *)
(* (services/influencerService.ts).  Both await the duplicate check and    *)
(* the create separately, so two calls can interleave between them.        *)
(***************************************************************************)
AddVersions == {"throwing", "result"}
Organizations == {"o1", "o2"}
Handles == {"h0", "h1"}
ValidPlatforms == {"X", "YouTube", "Instagram", "LinkedIn"}
AddPlatforms == {"LinkedIn", "Myspace"}
NewIds == <<"i3", "i4", "i5", "i6">>

AlreadyTracked == "This influencer is already being tracked by your organization"
DuplicateKeyError == "E11000 duplicate key error"

TripleOf(doc) ==
    [organizationId |-> doc.organizationId, platform |-> doc.platform, handle |-> doc.handle]

\* InfluencerModel.findOne({organizationId, platform, handle})
checkDuplicateInfluencer(coll, triple) ==
    \E i \in DOMAIN coll : TripleOf(coll[i]) = triple

\* the unique index {organizationId, platform, handle} of InfluencerSchema
UniqueIndexRejects(coll, triple) ==
    \E i \in DOMAIN coll : TripleOf(coll[i]) = triple

\* validation and handle extraction, up to the first await
AddStart(a, version, organizationId, platform, handle, named) ==
    /\ adds[a].pc = "idle"
    /\ adds' = [adds EXCEPT ![a] =
          IF platform \notin ValidPlatforms
          THEN [IdleAdd EXCEPT !.pc = "done", !.version = version, !.status = 400,
                               !.error = "Invalid platform"]
          ELSE [IdleAdd EXCEPT !.pc = "check", !.version = version, !.named = named,
                  !.triple = [organizationId |-> organizationId, platform |-> platform,
                              handle |-> handle]]]
    /\ UNCHANGED <<influencers, posts, scrapJobs, scrapers, now, sync, hook, applied,
                   trigger, relay, factory, probe>>

\* await checkDuplicateInfluencer(...), then the name check
AddCheckDuplicate(a) ==
    /\ adds[a].pc = "check"
    /\ adds' = [adds EXCEPT ![a] =
          IF checkDuplicateInfluencer(influencers, adds[a].triple)
          THEN [@ EXCEPT !.pc = "done", !.error = AlreadyTracked,
                         !.status = IF adds[a].version = "result" THEN 409 ELSE 0]
          ELSE IF ~adds[a].named
          THEN [@ EXCEPT !.pc = "done", !.error = "Name is required",
                         !.status = IF adds[a].version = "result" THEN 400 ELSE 0]
          ELSE [@ EXCEPT !.pc = "create"]]
    /\ UNCHANGED <<influencers, posts, scrapJobs, scrapers, now, sync, hook, applied,
                   trigger, relay, factory, probe>>

\* await InfluencerModel.create(...): the unique index rejects a second record
\* of the triple; the throwing copy lets the driver's error escape, the other
\* copy's catch turns it into a 500 result.  After a successful create the
\* initial sync is started in the background for the new record (created).
AddCreate(a) ==
    /\ adds[a].pc = "create"
    /\ Cardinality(DOMAIN influencers) - Cardinality(InflIds) < MaxAdded
    /\ IF UniqueIndexRejects(influencers, adds[a].triple)
       THEN /\ adds' = [adds EXCEPT ![a] =
                  [@ EXCEPT !.pc = "done",
                     !.error = IF adds[a].version = "result" THEN "Failed to add influencer"
                               ELSE DuplicateKeyError,
                     !.status = IF adds[a].version = "result" THEN 500 ELSE 0]]
            /\ UNCHANGED influencers
       ELSE LET id == NewIds[Cardinality(DOMAIN influencers) - Cardinality(InflIds) + 1]
                doc == [NewInfluencer(adds[a].triple.platform) EXCEPT
                          !.organizationId = adds[a].triple.organizationId,
                          !.handle = adds[a].triple.handle]
            IN  /\ influencers' = influencers @@ (id :> doc)
                /\ adds' = [adds EXCEPT ![a] =
                      [@ EXCEPT !.pc = "done", !.status = 200, !.created = id]]
    /\ UNCHANGED <<posts, scrapJobs, scrapers, now, sync, hook, applied,
                   trigger, relay, factory, probe>>

\* the call returns (or its exception reaches the caller)
AddReturn(a) ==
    /\ adds[a].pc = "done"
    /\ adds' = [adds EXCEPT ![a] = IdleAdd]
    /\ UNCHANGED <<influencers, posts, scrapJobs, scrapers, now, sync, hook, applied,
                   trigger, relay, factory, probe>>

NextAdd ==
    \/ \E a \in Adders, version \in AddVersions, o \in Organizations,
          p \in AddPlatforms, h \in Handles, named \in BOOLEAN :
          AddStart(a, version, o, p, h, named)
    \/ \E a \in Adders : AddCheckDuplicate(a)
    \/ \E a \in Adders : AddCreate(a)
    \/ \E a \in Adders : AddReturn(a)

SpecAdd == Init /\ [][NextAdd]_vars

(***************************************************************************)
(* Claims about addInfluencer, checked under SpecAdd.                      *)
(***************************************************************************)

\* C12: no two Influencer records share (organizationId, platform, handle),
\* and an addInfluencer call that finishes while a record of its triple
\* exists (found by the duplicate check, or created by a racing call before
\* this call's create) ends with the 'already being tracked' conflict and
\* creates no record.
C12_DuplicateIsConflict ==
    /\ [](\A i, j \in DOMAIN influencers :
            TripleOf(influencers[i]) = TripleOf(influencers[j]) => i = j)
    /\ [][\A a \in Adders :
            (/\ adds[a].pc \in {"check", "create"}
             /\ adds'[a].pc = "done"
             /\ checkDuplicateInfluencer(influencers, adds[a].triple))
            => /\ adds'[a].error = AlreadyTracked
               /\ adds'[a].version = "result" => adds'[a].status = 409
               /\ influencers' = influencers]_vars

(***************************************************************************)
(* InfluencerService.deleteInfluencer.  The copy of unnamed/part_002       *)
(* ("throwing" above) removes the influencer's posts after the record; the *)
(* copy of services/influencerService.ts ("result") removes the record     *)
(* only.  A call uses a slot of adds.                                      *)
(***************************************************************************)
DeleteStart(a, version, influencerId, organizationId) ==
    /\ adds[a].pc = "idle"
    /\ adds' = [adds EXCEPT ![a] =
          [IdleAdd EXCEPT !.pc = "delfind", !.version = version, !.target = influencerId,
                          !.triple.organizationId = organizationId]]
    /\ UNCHANGED <<influencers, posts, scrapJobs, scrapers, now, sync, hook, applied,
                   trigger, relay, factory, probe>>

\* await InfluencerModel.findOne({_id, organizationId})
DeleteFind(a) ==
    /\ adds[a].pc = "delfind"
    /\ adds' = [adds EXCEPT ![a] =
          IF /\ adds[a].target \in DOMAIN influencers
             /\ influencers[adds[a].target].organizationId = adds[a].triple.organizationId
          THEN [@ EXCEPT !.pc = "delone"]
          ELSE [@ EXCEPT !.pc = "done", !.status = 404, !.error = "Influencer not found"]]
    /\ UNCHANGED <<influencers, posts, scrapJobs, scrapers, now, sync, hook, applied,
                   trigger, relay, factory, probe>>

\* await InfluencerModel.deleteOne({_id}); the copy without the cascade
\* returns success here
DeleteOne(a) ==
    /\ adds[a].pc = "delone"
    /\ influencers' = [i \in DOMAIN influencers \ {adds[a].target} |-> influencers[i]]
    /\ adds' = [adds EXCEPT ![a] =
          IF adds[a].version = "throwing"
          THEN [@ EXCEPT !.pc = "delmany"]
          ELSE [@ EXCEPT !.pc = "done", !.status = 200]]
    /\ UNCHANGED <<posts, scrapJobs, scrapers, now, sync, hook, applied,
                   trigger, relay, factory, probe>>

\* await PostModel.deleteMany({influencerId}); a failure is caught and
\* answered with 500
DeleteMany(a, ok) ==
    /\ adds[a].pc = "delmany"
    /\ IF ok
       THEN /\ posts' = SelectSeq(posts, LAMBDA row : row.influencerId # adds[a].target)
            /\ adds' = [adds EXCEPT ![a] = [@ EXCEPT !.pc = "done", !.status = 200]]
       ELSE /\ adds' = [adds EXCEPT ![a] =
                  [@ EXCEPT !.pc = "done", !.status = 500,
                            !.error = "Failed to delete influencer"]]
            /\ UNCHANGED posts
    /\ UNCHANGED <<influencers, scrapJobs, scrapers, now, sync, hook, applied,
                   trigger, relay, factory, probe>>

\* one post sync fills the Post collection while influencers are deleted
NextDelete ==
    \/ \E i \in InflIds : SyncStart("c1", "posts", i)
    \/ SyncFind("c1")
    \/ SyncSetFlag("c1")
    \/ SyncScrapePosts("c1")
    \/ SyncSavePost("c1")
    \/ SyncSaveDone("c1")
    \/ SyncFinally("c1")
    \/ SyncReturn("c1")
    \/ \E version \in AddVersions, i \in InflIds \cup {GhostId}, o \in Organizations :
          DeleteStart("a1", version, i, o)
    \/ DeleteFind("a1")
    \/ DeleteOne("a1")
    \/ \E ok \in BOOLEAN : DeleteMany("a1", ok)
    \/ AddReturn("a1")

SpecDelete == Init /\ [][NextDelete]_vars

\* C23: when deleteInfluencer returns success for influencer I, neither the
\* Influencer record I nor any Post with influencerId I exists.
C23_DeleteCascades ==
    [][\A a \in Adders :
          (/\ adds[a].pc \in {"delone", "delmany"}
           /\ adds'[a].pc = "done"
           /\ adds'[a].status = 200)
          => /\ adds[a].target \notin DOMAIN influencers'
             /\ \A n \in 1..Len(posts') : posts'[n].influencerId # adds[a].target]_vars

(***************************************************************************)
(* LinkedInScraper.initScrapProfile / initScrapPosts step by step: the     *)
(* token check, the awaited createScrapJob, the awaited trigger request.   *)
(***************************************************************************)
webhookUrl == "https://influencer-tracking-backend-240655696079.asia-south1.run.app/scrap-webhook"

TokenError == "API token not configured"
SaveError == "ScrapJob save failed"
RequestError == "trigger request failed"

\* `${this.webhookUrl}/${jobId}`: the base followed by the segments after it
WebhookEndpointBare(jobId) == [base |-> webhookUrl, segments |-> <<>>]
WebhookEndpoint(jobId) == [base |-> webhookUrl, segments |-> <<jobId>>]

\* a check that lets every call through
MissingTokenIgnored(token) == FALSE
\* if (!this.apiToken)
MissingToken(token) == ~token

\* the query parameters of callProfileScrapingApi / callPostScrapingApi that
\* name the webhook
TriggerRequest(jobType, jobId) ==
    [dataset |-> jobType,
     endpoint |-> WebhookEndpoint(jobId),
     webhook_endpoint |-> WebhookEndpoint(jobId)]

\* entry: the token check is the first statement
InitScrapStart(jobType, influencerId, token) ==
    /\ trigger.call.pc = "idle"
    /\ Len(scrapJobs) < MaxTriggers
    /\ trigger' = [trigger EXCEPT !.call =
          IF MissingToken(token)
          THEN [IdleInit EXCEPT !.pc = "threw", !.jobType = jobType,
                  !.influencerId = influencerId, !.token = token, !.error = TokenError]
          ELSE [IdleInit EXCEPT !.pc = "create", !.jobType = jobType,
                  !.influencerId = influencerId, !.token = token]]
    /\ UNCHANGED <<influencers, posts, scrapJobs, scrapers, now, sync, hook, applied,
                   adds, relay, factory, probe>>

\* const jobId = await this.createScrapJob({...}): the row is saved, or the
\* save fails and the error is rethrown
InitScrapCreateJob(ok) ==
    /\ trigger.call.pc = "create"
    /\ IF ok
       THEN /\ scrapJobs' = Append(scrapJobs,
                    createScrapJob(trigger.call.jobType, trigger.call.influencerId,
                                   "LinkedIn", "processing", now))
            /\ trigger' = [trigger EXCEPT !.call.pc = "call",
                                          !.call.jobId = Len(scrapJobs) + 1]
       ELSE /\ trigger' = [trigger EXCEPT !.call.pc = "threw", !.call.error = SaveError]
            /\ UNCHANGED scrapJobs
    /\ UNCHANGED <<influencers, posts, scrapers, now, sync, hook, applied,
                   adds, relay, factory, probe>>

\* a catch block that records the failure on the job row
catchAndRethrowMarksFailed(jobs, jobId, message) ==
    [jobs EXCEPT ![jobId] = [@ EXCEPT !.status = "failed", !.errorMessage = message]]
\* catch (error) { Logger.error(...); throw error; }: the rows are not touched
catchAndRethrow(jobs, jobId, message) == jobs

\* await this.call<Kind>ScrapingApi(profileUrl, jobId): the request is sent;
\* the provider answers, or the request fails or times out and the error is
\* rethrown (the row stays)
InitScrapCallApi(ok) ==
    /\ trigger.call.pc = "call"
    /\ trigger' = [trigger EXCEPT
          !.requests = Append(@, TriggerRequest(trigger.call.jobType, trigger.call.jobId)),
          !.call.pc = IF ok THEN "returned" ELSE "threw",
          !.call.error = IF ok THEN "" ELSE RequestError]
    /\ scrapJobs' = IF ok THEN scrapJobs
                    ELSE catchAndRethrow(scrapJobs, trigger.call.jobId, RequestError)
    /\ UNCHANGED <<influencers, posts, scrapers, now, sync, hook, applied,
                   adds, relay, factory, probe>>

\* the call returns or its error reaches the caller
InitScrapReturn ==
    /\ trigger.call.pc \in {"returned", "threw"}
    /\ trigger' = [trigger EXCEPT !.call = IdleInit]
    /\ UNCHANGED <<influencers, posts, scrapJobs, scrapers, now, sync, hook, applied,
                   adds, relay, factory, probe>>

NextTrigger ==
    \/ \E jobType \in Kinds, i \in InflIds, token \in BOOLEAN :
          InitScrapStart(jobType, i, token)
    \/ \E ok \in BOOLEAN : InitScrapCreateJob(ok)
    \/ \E ok \in BOOLEAN : InitScrapCallApi(ok)
    \/ InitScrapReturn

SpecTrigger == Init /\ [][NextTrigger]_vars

(***************************************************************************)
(* Claims about the trigger calls, checked under SpecTrigger.              *)
(***************************************************************************)

\* C13: a trigger request is sent only by a call whose ScrapJob row is already
\* stored; its endpoint and webhook_endpoint both are the webhook base URL
\* followed by '/' and that row's jobId; a call whose job creation failed
\* sends no request.
C13_RowBeforeRequest ==
    [][/\ trigger'.requests # trigger.requests
          => /\ trigger.call.pc = "call"
             /\ trigger.call.jobId \in 1..Len(scrapJobs)
             /\ scrapJobs[trigger.call.jobId].jobType = trigger.call.jobType
             /\ scrapJobs[trigger.call.jobId].influencerId = trigger.call.influencerId
             /\ \E r \in {[base |-> webhookUrl, segments |-> <<trigger.call.jobId>>]} :
                   /\ trigger'.requests = Append(trigger.requests, trigger'.requests[Len(trigger'.requests)])
                   /\ trigger'.requests[Len(trigger'.requests)].endpoint = r
                   /\ trigger'.requests[Len(trigger'.requests)].webhook_endpoint = r
       /\ trigger.call.error = SaveError => trigger'.requests = trigger.requests]_vars

\* a request was sent and answered, and a later call failed to create its job
C13_Witness ==
    /\ Len(trigger.requests) = 1
    /\ trigger.call.error = SaveError

\* C17: every stored job has status processing until the handler finalizes
\* it as completed or failed; no job is stored with status pending.
C17_NeverPending ==
    \A j \in DOMAIN scrapJobs :
        /\ scrapJobs[j].status # "pending"
        /\ scrapJobs[j].status \in {"processing", "completed", "failed"}

\* C18: a call made without an API token throws the explicit error at once:
\* it creates no ScrapJob row and sends no request, then or later.
C18_NoTokenNoEffect ==
    [][/\ (trigger.call.pc = "idle" /\ trigger'.call.pc # "idle" /\ ~trigger'.call.token)
          => /\ trigger'.call.pc = "threw"
             /\ trigger'.call.error = TokenError
             /\ scrapJobs' = scrapJobs
             /\ trigger'.requests = trigger.requests
       /\ (trigger.call.pc # "idle" /\ ~trigger.call.token)
          => /\ scrapJobs' = scrapJobs
             /\ trigger'.requests = trigger.requests
             /\ trigger'.call.pc = "idle"]_vars

\* a call without a token has thrown while an earlier job exists
C18_Witness ==
    /\ trigger.call.pc = "threw"
    /\ ~trigger.call.token
    /\ trigger.call.error = TokenError
    /\ Len(scrapJobs) = 1

(***************************************************************************)
(* The webhook relay (webhook.js), the topic, and the queue consumer       *)
(* (ScrapWebhookPubsubConsumer).                                           *)
(***************************************************************************)
\* message data: the text of a JSON value, or bytes that are not JSON
Text(v) == [t |-> "text", json |-> v]
Garbage == [t |-> "garbage"]

\* JSON.stringify(req.body ? req.body : {}): body-parser hands over an object
\* or an array, both truthy
RelayPayload(body) == Text(IF body = Absent THEN Object(<<>>) ELSE body)

\* app.post('/scrap-webhook', ...): the only POST route; a path with anything
\* after it matches no route
RouteMatches(url) == url.base = webhookUrl /\ url.segments = <<>>

\* the provider's callback bodies
E2EPost == Object([post_id |-> Str("p1"), likes |-> NumStr(1, 2, "K")])
E2EBody == Array(<<E2EPost>>)
CallbackBodies == {E2EBody, Array(<<ProfileA>>)}

\* the URLs a callback is sent to: those registered by trigger requests, and
\* the bare route
CallbackUrls == {trigger.requests[n].endpoint : n \in 1..Len(trigger.requests)}
                  \cup {WebhookEndpointBare(0)}

\* one POST to the relay: 404 for an unmatched path; otherwise the body is
\* published and {status: 'ok'} returned, or the publish fails, the error is
\* logged and no response is sent (status 0)
RelayPost(url, body, ok) ==
    /\ Len(relay.topic) < MaxQueue
    /\ IF ~RouteMatches(url)
       THEN relay' = [relay EXCEPT !.last =
                        [url |-> url, body |-> body, status |-> 404, published |-> Absent]]
       ELSE IF ok
       THEN relay' = [relay EXCEPT
                        !.topic = Append(@, RelayPayload(body)),
                        !.last = [url |-> url, body |-> body, status |-> 200,
                                  published |-> RelayPayload(body)]]
       ELSE relay' = [relay EXCEPT !.last =
                        [url |-> url, body |-> body, status |-> 0, published |-> Absent]]
    /\ UNCHANGED <<influencers, posts, scrapJobs, scrapers, now, sync, hook, applied,
                   adds, trigger, factory, probe>>

\* the envelope the consumer unwraps
Envelope(jobId, body) == Object([params |-> Object([jobId |-> Num(jobId)]), body |-> body])

\* message data the subscription can carry besides what the relay publishes
OtherMessages ==
    {Garbage, Text(Object([body |-> E2EBody]))}
      \cup {Text(Envelope(j, E2EBody)) : j \in 1..(Len(scrapJobs) + 1)}

\* any publisher of the topic
TopicPublish(message) ==
    /\ Len(relay.topic) < MaxQueue
    /\ relay' = [relay EXCEPT !.topic = Append(@, message)]
    /\ UNCHANGED <<influencers, posts, scrapJobs, scrapers, now, sync, hook, applied,
                   adds, trigger, factory, probe>>

\* subscription.on('message', ...): the next message is handed to the callback
ConsumerReceive ==
    /\ relay.consumer.pc = "idle"
    /\ relay.topic # <<>>
    /\ relay' = [relay EXCEPT
          !.topic = Tail(@),
          !.consumer = [pc |-> "handling", message |-> Head(relay.topic),
                        outcome |-> "", acks |-> 0]]
    /\ UNCHANGED <<influencers, posts, scrapJobs, scrapers, now, sync, hook, applied,
                   adds, trigger, factory, probe>>

\* JSON.parse(message) throws on bytes that are not JSON
ParseThrows(message) == message.t # "text"
\* payload.params.jobId throws a TypeError when payload.params is undefined
\* or null
ParamsThrows(message) == Get(message.json, "params") \in {Absent, Null}
\* the jobId handed to the handler: 0 (no row) when it is not a job id
ConsumerJobId(message) ==
    LET v == Get(Get(message.json, "params"), "jobId")
    IN  IF v.t = "number" THEN v.n ELSE 0
ConsumerBody(message) == Get(message.json, "body")

\* handleMessage: everything inside one try; the catch logs and returns
ConsumerHandle(failCall) ==
    /\ relay.consumer.pc = "handling"
    /\ LET message == relay.consumer.message IN
       IF ParseThrows(message)
       THEN /\ relay' = [relay EXCEPT !.consumer.pc = "handled",
                                      !.consumer.outcome = "malformed"]
            /\ UNCHANGED <<influencers, posts, scrapJobs, scrapers, now, sync, hook, applied>>
       ELSE IF ParamsThrows(message)
       THEN /\ relay' = [relay EXCEPT !.consumer.pc = "handled",
                                      !.consumer.outcome = "noparams"]
            /\ UNCHANGED <<influencers, posts, scrapJobs, scrapers, now, sync, hook, applied>>
       ELSE /\ handleWebhook("flat", ConsumerJobId(message), ConsumerBody(message), failCall)
            /\ relay' = [relay EXCEPT !.consumer.pc = "handled",
                                      !.consumer.outcome = hook'.outcome]
    /\ UNCHANGED <<adds, trigger, factory, probe>>

\* an acknowledgement given only to messages that were applied
ShouldAckOnSuccess(outcome) == outcome = "completed"
\* message.ack() follows the awaited handleMessage unconditionally
ShouldAck(outcome) == TRUE

\* message.ack(), then the callback returns
ConsumerAck ==
    /\ relay.consumer.pc = "handled"
    /\ relay' = [relay EXCEPT
          !.consumer.pc = "idle",
          !.consumer.acks = IF ShouldAck(relay.consumer.outcome) THEN @ + 1 ELSE @]
    /\ UNCHANGED <<influencers, posts, scrapJobs, scrapers, now, sync, hook, applied,
                   adds, trigger, factory, probe>>

\* from trigger to consumption: what the relay publishes is what the consumer
\* receives
NextRelay ==
    \/ \E jobType \in Kinds, i \in InflIds : InitScrapStart(jobType, i, TRUE)
    \/ InitScrapCreateJob(TRUE)
    \/ \E ok \in BOOLEAN : InitScrapCallApi(ok)
    \/ InitScrapReturn
    \/ \E url \in CallbackUrls, body \in CallbackBodies, ok \in BOOLEAN :
          RelayPost(url, body, ok)
    \/ ConsumerReceive
    \/ \E failCall \in FailCalls : ConsumerHandle(failCall)
    \/ ConsumerAck

SpecRelay == Init /\ [][NextRelay]_vars

\* the consumer on its own, fed every kind of message
NextConsumer ==
    \/ \E jobType \in Kinds, i \in InflIds : InitScrap(jobType, i)
    \/ \E message \in OtherMessages : TopicPublish(message)
    \/ ConsumerReceive
    \/ \E failCall \in FailCalls : ConsumerHandle(failCall)
    \/ ConsumerAck

SpecConsumer == Init /\ [][NextConsumer]_vars

(***************************************************************************)
(* Claims about the relay and the consumer, checked under SpecRelay and    *)
(* SpecConsumer.                                                           *)
(***************************************************************************)

\* C14: a callback POSTed to a URL registered by a trigger request (base,
\* '/', J) with body B is accepted by the relay, and the message published
\* for it yields jobId J and body B when the consumer unwraps it.
C14_CallbackReachesHandler ==
    [][(/\ relay'.last # relay.last
        /\ \E n \in 1..Len(trigger.requests) :
              trigger.requests[n].endpoint = relay'.last.url)
       => /\ relay'.last.status = 200
          /\ ~ParseThrows(relay'.last.published)
          /\ ~ParamsThrows(relay'.last.published)
          /\ <<ConsumerJobId(relay'.last.published)>> = relay'.last.url.segments
          /\ ConsumerBody(relay'.last.published) = relay'.last.body]_vars

\* C15: a message handed to the consumer is acknowledged exactly once, by
\* the step that follows the end of handleMessage, whatever the outcome;
\* no consumer step puts a message back on the topic.
C15_AckOnceAfterHandling ==
    [][/\ (relay.consumer.pc = "handled" /\ relay'.consumer # relay.consumer)
          => /\ relay'.consumer.acks = 1
             /\ relay'.consumer.pc = "idle"
             /\ relay'.consumer.message = relay.consumer.message
       /\ relay'.consumer.acks # relay.consumer.acks
          => \/ relay.consumer.pc = "handled" /\ relay.consumer.acks = 0
             \/ relay'.consumer.pc = "handling" /\ relay'.consumer.acks = 0
       /\ relay'.consumer # relay.consumer
          => Len(relay'.topic) <= Len(relay.topic)]_vars

\* a message whose job failed has been acknowledged
C15_Witness ==
    /\ relay.consumer.pc = "idle"
    /\ relay.consumer.acks = 1
    /\ relay.consumer.outcome = "failed"

\* C16: a posts job J exists for a LinkedIn influencer; the provider's
\* callback for J, carrying the single post {post_id: 'p1', likes: '1.2K'},
\* has been answered by the relay and nothing is left to consume.  Then
\* the influencer has exactly one Post p1 with likes 1200, isPostSyncing is
\* false and job J is completed.
C16_EndToEnd ==
    \A j \in 1..Len(scrapJobs) :
        (/\ scrapJobs[j].jobType = "posts"
         /\ influencers[scrapJobs[j].influencerId].platform = "LinkedIn"
         /\ relay.last.url = [base |-> webhookUrl, segments |-> <<j>>]
         /\ relay.last.body = E2EBody
         /\ relay.topic = <<>>
         /\ relay.consumer.pc = "idle")
        => /\ scrapJobs[j].status = "completed"
           /\ ~influencers[scrapJobs[j].influencerId].isPostSyncing
           /\ Cardinality({n \in RowsWithId(posts, Str("p1")) :
                              /\ posts[n].influencerId = scrapJobs[j].influencerId
                              /\ posts[n].likes = 1200}) = 1
           /\ Cardinality(RowsWithId(posts, Str("p1"))) = 1

(***************************************************************************)
(* ScraperFactory on its own.  The repository holds two copies: the one    *)
(* of scraperFactory.ts keys the cache by the normalized name and has      *)
(* clearCache; the one of unnamed/part_003 keys it by the name as given.   *)
(* getScraper is synchronous, so a call is one step.                       *)
(***************************************************************************)
FactoryVersions == {"normalizing", "plain"}
FactoryPlatforms == {"LinkedIn", "linkedin", "Linked-In", "X", "x", "YouTube", "Instagram"}

\* unnamed/part_003: has(platform), switch (platform), set(platform, scraper)
getScraperThrowsPlain(cache, platform) ==
    /\ platform \notin DOMAIN cache.cache
    /\ platform # "LinkedIn"

getScraperCachePlain(cache, platform) ==
    IF getScraperThrowsPlain(cache, platform) \/ platform \in DOMAIN cache.cache
    THEN cache
    ELSE [cache |-> cache.cache @@ (platform :> cache.built + 1),
          built |-> cache.built + 1]

CacheKey(version, platform) ==
    IF version = "plain" THEN platform ELSE normalizePlatform(platform)

\* one getScraper call and what it returned
GetScraper(version, platform) ==
    /\ factory.version \in {"unset", version}
    /\ LET threw == IF version = "plain" THEN getScraperThrowsPlain(scrapers, platform)
                    ELSE getScraperThrows(scrapers, platform)
           after == IF version = "plain" THEN getScraperCachePlain(scrapers, platform)
                    ELSE getScraperCache(scrapers, platform)
           instance == IF threw THEN 0 ELSE after.cache[CacheKey(version, platform)]
       IN  /\ after.built <= MaxBuilt
           /\ scrapers' = after
           /\ factory' = [version |-> version, platform |-> platform, threw |-> threw,
                          hit |-> ~threw /\ after.built = scrapers.built,
                          instance |-> instance,
                          returned |-> IF threw THEN factory.returned
                                       ELSE factory.returned \cup {<<platform, instance>>},
                          constructed |-> IF after.built = scrapers.built
                                          THEN factory.constructed
                                          ELSE factory.constructed
                                                 \cup {<<platform, after.built>>}]
    /\ UNCHANGED <<influencers, posts, scrapJobs, now, sync, hook, applied,
                   adds, trigger, relay, probe>>

\* clearCache(): this.scrapers.clear() (only the scraperFactory.ts copy has it)
ClearCache ==
    /\ factory.version \in {"unset", "normalizing"}
    /\ scrapers' = [scrapers EXCEPT !.cache = <<>>]
    /\ factory' = [NoFactory EXCEPT !.version = "normalizing"]
    /\ UNCHANGED <<influencers, posts, scrapJobs, now, sync, hook, applied,
                   adds, trigger, relay, probe>>

\* getSupportedPlatforms(): [PlatformType.LinkedIn, PlatformType.X]
getSupportedPlatforms == {"LinkedIn", "X"}

\* isPlatformSupported: getSupportedPlatforms().includes(normalizePlatform(platform))
isPlatformSupported(platform) == normalizePlatform(platform) \in getSupportedPlatforms

\* one isPlatformSupported call and its answer (scraperFactory.ts only)
IsPlatformSupported(platform) ==
    /\ factory.version # "plain"
    /\ probe' = [fn |-> "isPlatformSupported", input |-> Str(platform), time |-> 0,
                 calls |-> 1, output |-> Bool(isPlatformSupported(platform))]
    /\ UNCHANGED <<influencers, posts, scrapJobs, scrapers, now, sync, hook, applied,
                   adds, trigger, relay, factory>>

NextFactory ==
    \/ \E version \in FactoryVersions, platform \in FactoryPlatforms :
          GetScraper(version, platform)
    \/ ClearCache
    \/ \E platform \in FactoryPlatforms : IsPlatformSupported(platform)

SpecFactory == Init /\ [][NextFactory]_vars

(***************************************************************************)
(* Claims about the factory, checked under SpecFactory.                    *)
(***************************************************************************)

\* C19: since the last clearCache, every getScraper call that returned for
\* one platform returned the same instance, and at most one instance was
\* constructed for a platform.
C19_OneInstancePerPlatform ==
    /\ \A x, y \in factory.returned :
          normalizePlatform(x[1]) = normalizePlatform(y[1]) => x[2] = y[2]
    /\ \A x, y \in factory.constructed :
          normalizePlatform(x[1]) = normalizePlatform(y[1]) => x = y

\* after a clearCache a second instance was built, and the last call was
\* answered from the cache with it
C19_Witness ==
    /\ scrapers.built = 2
    /\ factory.hit
    /\ factory.instance = 2
    /\ factory.constructed = {<<"LinkedIn", 2>>}

\* C20: a getScraper call for any identifier other than 'LinkedIn' throws
\* and leaves the cache as it was.
C20_UnsupportedThrows ==
    [][(factory' # factory /\ factory'.version # "unset" /\ factory'.platform \notin {"", "LinkedIn"})
       => /\ factory'.threw
          /\ scrapers' = scrapers]_vars

\* C29: whether getScraper(p) throws depends on p only: every call has the
\* outcome the same call has on an empty cache, whatever was resolved and
\* cached before it.
C29_OutcomeDependsOnlyOnPlatform ==
    [][(factory' # factory /\ factory'.platform # "")
       => factory'.threw =
             IF factory'.version = "plain"
             THEN getScraperThrowsPlain(NoScrapers, factory'.platform)
             ELSE getScraperThrows(NoScrapers, factory'.platform)]_vars

\* C30: isPlatformSupported(p) answers true exactly when getScraper(p) on an
\* empty cache returns an adapter.
C30_SupportedIffResolves ==
    probe.fn = "isPlatformSupported"
    => (probe.output = Bool(TRUE)) <=> ~getScraperThrows(NoScrapers, probe.input.s)

(***************************************************************************)
(* The adapter's parsers as pure functions.  A call is one step that       *)
(* records its input, the clock and its result in probe.                   *)
(***************************************************************************)
\* a string given character by character
Chars(cs) == [t |-> "chars", cs |-> cs]
NaN == [t |-> "NaN"]

Digits == {"0", "1", "2", "3", "4", "5", "6", "7", "8", "9"}
DigitValue(c) ==
    CASE c = "0" -> 0 [] c = "1" -> 1 [] c = "2" -> 2 [] c = "3" -> 3 [] c = "4" -> 4
      [] c = "5" -> 5 [] c = "6" -> 6 [] c = "7" -> 7 [] c = "8" -> 8 [] c = "9" -> 9
Suffixes == {"K", "k", "M", "m", "B", "b"}

\* value.match(/^([\d.]+)([KkMmBb])?$/): the first group, <<>> when the
\* string does not match
NumberGroup(cs) ==
    LET body == IF cs # <<>> /\ cs[Len(cs)] \in Suffixes
                THEN SubSeq(cs, 1, Len(cs) - 1) ELSE cs
    IN  IF body # <<>> /\ \A i \in 1..Len(body) : body[i] \in Digits \cup {"."}
        THEN body ELSE <<>>

\* match[2]?.toLowerCase(), "" when the second group did not take part
NumberSuffix(cs) ==
    IF cs # <<>> /\ cs[Len(cs)] \in Suffixes
    THEN CASE cs[Len(cs)] \in {"K", "k"} -> "k"
           [] cs[Len(cs)] \in {"M", "m"} -> "m"
           [] cs[Len(cs)] \in {"B", "b"} -> "b"
    ELSE ""

\* the number of leading digits of cs
LeadingDigits(cs) ==
    CHOOSE n \in 0..Len(cs) :
        /\ \A i \in 1..n : cs[i] \in Digits
        /\ n = Len(cs) \/ cs[n + 1] \notin Digits

RECURSIVE DigitsValue(_)
DigitsValue(cs) ==
    IF cs = <<>> THEN 0
    ELSE DigitsValue(SubSeq(cs, 1, Len(cs) - 1)) * 10 + DigitValue(cs[Len(cs)])

RECURSIVE Pow10(_)
Pow10(n) == IF n = 0 THEN 1 ELSE 10 * Pow10(n - 1)

\* parseFloat on a string of digits and dots: the longest prefix
\* digits [ '.' digits ] that holds a digit, as mantissa / 10^scale; NaN when
\* no such prefix exists
parseFloat(cs) ==
    LET whole == LeadingDigits(cs)
        rest == SubSeq(cs, whole + 2, Len(cs))
        frac == IF whole < Len(cs) /\ cs[whole + 1] = "." THEN LeadingDigits(rest) ELSE 0
    IN  IF whole + frac = 0 THEN NaN
        ELSE [mantissa |-> DigitsValue(SubSeq(cs, 1, whole) \o SubSeq(rest, 1, frac)),
              scale |-> frac]

\* Math.round(num * factor) for num = mantissa / 10^scale: floor(x + 0.5)
MathRound(num, factor) ==
    LET product == num.mantissa * factor
        unit == Pow10(num.scale)
    IN  (product \div unit) + (IF 2 * (product % unit) >= unit THEN 1 ELSE 0)

\* the two copies of the parser differ in what they return for anything else
NumberParsers == {"_parseNumber", "parseNumber"}
NumberDefault(parser) == IF parser = "_parseNumber" THEN Num(0) ELSE Absent

\* LinkedInScraper._parseNumber / ProfileScraperService.parseNumber on any
\* value, strings given by their characters included
ParseNumberOf(parser, v) ==
    CASE v.t = "number" -> v
      [] v.t = "numstr" -> Num(parseNumber(v))
      [] v.t = "chars" ->
           IF NumberGroup(v.cs) = <<>> THEN NumberDefault(parser)
           ELSE LET num == parseFloat(NumberGroup(v.cs))
                    suffix == NumberSuffix(v.cs)
                IN  IF num = NaN THEN NaN
                    ELSE IF suffix = "k" THEN Num(MathRound(num, 1000))
                    ELSE IF suffix = "m" THEN Num(MathRound(num, 1000000))
                    ELSE IF suffix = "b" THEN Num(MathRound(num, 1000000000))
                    ELSE Num(MathRound(num, 1))
      [] OTHER -> NumberDefault(parser)

\* counter values a provider can send: generated strings over a small
\* alphabet, the documented examples, numbers and non-strings
CounterAlphabet == {"1", "2", ".", "K", "k", "x"}
CounterInputs ==
    {Chars(cs) : cs \in SeqsUpTo(CounterAlphabet, MaxChars)}
      \cup {Chars(<<"5", ".", "3", "M">>), Chars(<<"5", ".", "3", "m">>),
             Chars(<<"2", "B">>), Chars(<<"2", "b">>),
             Num(42), Num(0), Absent, Null, Bool(TRUE), Str("n1")}

ParseNumberCall(parser, v) ==
    /\ probe = NoProbe
    /\ probe' = [fn |-> parser, input |-> v, time |-> now, calls |-> 1,
                 output |-> ParseNumberOf(parser, v)]
    /\ UNCHANGED <<influencers, posts, scrapJobs, scrapers, now, sync, hook, applied,
                   adds, trigger, relay, factory>>

\* what a call that throws leaves in probe
Thrown == [t |-> "TypeError"]

\* media.forEach(item => ... item.url ...): reading a property of null or
\* undefined throws
MediaThrows(post) ==
    LET media == Or(Or(Or(Or(Get(post, "images"), Get(post, "media")), Get(post, "media_urls")),
                       Get(post, "attachments")), Array(<<>>))
    IN  /\ IsArray(media)
        /\ \E n \in 1..Len(media.items) : media.items[n] \in {Null, Absent}

\* payload.name, post.post_id: reading a property of null or undefined throws
parseProfileDataThrows(payload) == payload \in {Null, Absent}
parsePostDataThrows(post) == post \in {Null, Absent} \/ MediaThrows(post)

\* the known fields the generated payloads draw from, each with one value
ProfileFieldValues ==
    [name |-> Str("n1"), title |-> Str("n2"), url |-> Url("h1", "a"),
     avatar |-> Url("h2", "b"), profile_id |-> Str("u1"), headline |-> Str("b1"),
     followers |-> NumStr(1, 5, "K"), verified |-> Bool(TRUE), city |-> Str("c1")]
PostFieldValues ==
    [post_id |-> Str("p1"), post_text_html |-> Str("t1"), url |-> Url("h1", "a"),
     likes |-> NumStr(1, 2, "K"), num_comments |-> Num(3), reposts |-> Num(2),
     posted_at |-> Num(1700000000),
     images |-> Array(<<Url("h2", "b"), Object([url |-> Url("h3", "c")])>>),
     attachments |-> Array(<<Null>>)]

\* an object carrying the subset S of the fields of values
Carrying(values, S) == Object([f \in S |-> values[f]])
ProfileObjects == {Carrying(ProfileFieldValues, S) : S \in SUBSET DOMAIN ProfileFieldValues}
PostObjects22 == {Carrying(PostFieldValues, S) : S \in SUBSET DOMAIN PostFieldValues}

ParseProfileCall(payload) ==
    /\ probe = NoProbe
    /\ probe' = [fn |-> "parseProfileData", input |-> payload, time |-> now, calls |-> 1,
                 output |-> IF parseProfileDataThrows(payload) THEN Thrown
                            ELSE parseProfileData(payload)]
    /\ UNCHANGED <<influencers, posts, scrapJobs, scrapers, now, sync, hook, applied,
                   adds, trigger, relay, factory>>

ParsePostCall(post) ==
    /\ probe = NoProbe
    /\ probe' = [fn |-> "parsePostData", input |-> post, time |-> now, calls |-> 1,
                 output |-> IF parsePostDataThrows(post) THEN Thrown
                            ELSE parsePostData(post, now)]
    /\ UNCHANGED <<influencers, posts, scrapJobs, scrapers, now, sync, hook, applied,
                   adds, trigger, relay, factory>>

\* the same payload is parsed once more, at the current time
ParsePostAgain ==
    /\ probe.fn = "parsePostData"
    /\ probe.calls = 1
    /\ probe' = [probe EXCEPT !.time = now, !.calls = 2,
                              !.output = IF parsePostDataThrows(probe.input) THEN Thrown
                                         ELSE parsePostData(probe.input, now)]
    /\ UNCHANGED <<influencers, posts, scrapJobs, scrapers, now, sync, hook, applied,
                   adds, trigger, relay, factory>>

\* post payloads that carry a url and no provider id
Urls == {Url("h1", "a"), Url("h1", "b"), Url("h2", "a")}
UrlPosts ==
    {Object([url |-> u]) : u \in Urls} \cup {Object([post_url |-> u]) : u \in Urls}

\* two payloads are parsed one after the other
ParsePostPair(first, second) ==
    /\ probe = NoProbe
    /\ probe' = [fn |-> "parsePostPair", input |-> <<first, second>>, time |-> now,
                 calls |-> 2,
                 output |-> <<parsePostData(first, now), parsePostData(second, now)>>]
    /\ UNCHANGED <<influencers, posts, scrapJobs, scrapers, now, sync, hook, applied,
                   adds, trigger, relay, factory>>

\* posted-at values: epoch seconds, the epoch milliseconds of the same
\* instant, zero, numbers with a fraction, and values that are not numbers
DateInputs ==
    {Num(1700000000), Decimal(1700000000, 0, 0), Decimal(1700000000, 7, 0),
     Num(0), Num(1), Decimal(1700000, 0, 500000), Decimal(1700000, 0, 500100),
     Decimal(1700000000, 7, 250000), Absent, Null, Str("n1")}

ParseDateCall(v) ==
    /\ probe = NoProbe
    /\ probe' = [fn |-> "parseDate", input |-> v, time |-> now, calls |-> 1,
                 output |-> parseDate(v, now)]
    /\ UNCHANGED <<influencers, posts, scrapJobs, scrapers, now, sync, hook, applied,
                   adds, trigger, relay, factory>>

\* the result is dropped
ProbeDone ==
    /\ probe # NoProbe
    /\ probe' = NoProbe
    /\ UNCHANGED <<influencers, posts, scrapJobs, scrapers, now, sync, hook, applied,
                   adds, trigger, relay, factory>>

NextParse ==
    \/ \E parser \in NumberParsers, v \in CounterInputs : ParseNumberCall(parser, v)
    \/ \E payload \in ProfileObjects \cup {Null, Absent} : ParseProfileCall(payload)
    \/ \E post \in PostObjects22 \cup {Null, Absent} : ParsePostCall(post)
    \/ ParsePostAgain
    \/ \E first, second \in UrlPosts : ParsePostPair(first, second)
    \/ \E v \in DateInputs : ParseDateCall(v)
    \/ ProbeDone
    \/ Tick

SpecParse == Init /\ [][NextParse]_vars

(***************************************************************************)
(* Claims about the parsers, checked under SpecParse.                      *)
(***************************************************************************)
\* digits with at most one dot among them, and at least one digit
IsDecimal(cs) ==
    /\ \E i \in 1..Len(cs) : cs[i] \in Digits
    /\ \A i \in 1..Len(cs) : cs[i] \in Digits \cup {"."}
    /\ Cardinality({i \in 1..Len(cs) : cs[i] = "."}) <= 1

\* C21: the number parser returns a number as it is, a decimal string with
\* an optional K, M or B suffix (either case) as the value times 10^3, 10^6
\* or 10^9 rounded to an integer, and the parser's default (0, or undefined
\* in the service copy) for every other input.
C21_ParseNumber ==
    probe.fn \in NumberParsers =>
        LET v == probe.input
            cs == v.cs
            body == IF cs[Len(cs)] \in Suffixes THEN SubSeq(cs, 1, Len(cs) - 1) ELSE cs
        IN  IF v.t = "number" THEN probe.output = v
            ELSE IF v.t = "chars" /\ cs # <<>> /\ IsDecimal(body)
            THEN /\ probe.output.t = "number"
                 /\ LET factor == CASE NumberSuffix(cs) = "k" -> 1000
                                    [] NumberSuffix(cs) = "m" -> 1000000
                                    [] NumberSuffix(cs) = "b" -> 1000000000
                                    [] OTHER -> 1
                        scaled == parseFloat(body)
                    IN  \* the integer nearest to value * factor
                        /\ 2 * (probe.output.n * Pow10(scaled.scale) - scaled.mantissa * factor)
                              <= Pow10(scaled.scale)
                        /\ 2 * (scaled.mantissa * factor - probe.output.n * Pow10(scaled.scale))
                              < Pow10(scaled.scale)
                 /\ v = Chars(<<"1", ".", "2", "K">>) => probe.output = Num(1200)
                 /\ v = Chars(<<"5", ".", "3", "M">>) => probe.output = Num(5300000)
                 /\ v = Chars(<<"2", "B">>) => probe.output = Num(2000000000)
            ELSE probe.output = NumberDefault(probe.fn)

\* none of the fields of names is on the payload
Missing(payload, names) == \A f \in names : Get(payload, f) = Absent

\* C22: for a payload that is an object, whatever known fields it carries,
\* parseProfileData and parsePostData return a record without throwing, in
\* which a missing string is '', a missing verified is false, a missing
\* counter is 0 and missing media is the empty list; with no payload at all
\* they throw.
C22_ParsersTolerateMissingFields ==
    LET in == probe.input
        out == probe.output
    IN  /\ (probe.fn = "parseProfileData" /\ in.t = "object") =>
              /\ out # Thrown
              /\ Missing(in, {"name", "full_name", "title"}) => out.name = Str("")
              /\ Missing(in, {"url", "profile_url", "input_url"}) => out.profileUrl = Str("")
              /\ Missing(in, {"avatar", "profile_picture", "image_url", "photo_url"})
                    => out.avatarUrl = Str("")
              /\ Missing(in, {"profile_id", "user_id", "linkedin_id"})
                    => out.platformUserId = Str("")
              /\ Missing(in, {"headline", "summary", "about"}) => out.bio = Str("")
              /\ Missing(in, {"city", "location"}) => out.location = Str("")
              /\ Missing(in, {"followers", "follower_count", "connections"})
                    => out.followerCount = Num(0)
              /\ Missing(in, {"verified"}) => out.verified = Bool(FALSE)
        /\ (probe.fn = "parsePostData" /\ in.t = "object") =>
              /\ out # Thrown
              /\ Missing(in, {"post_text_html"}) => out.content = Str("")
              /\ Missing(in, {"url", "post_url", "link"}) => out.postUrl = Str("")
              /\ Missing(in, {"likes", "reactions", "like_count"}) => out.likes = 0
              /\ Missing(in, {"comments", "num_comments", "comment_count"}) => out.comments = 0
              /\ Missing(in, {"shares", "reposts", "share_count"}) => out.shares = 0
              /\ Missing(in, {"images", "media", "media_urls", "attachments", "image_url"})
                    => out.mediaUrls = <<>>
        /\ (probe.fn \in {"parseProfileData", "parsePostData"} /\ in \in {Null, Absent})
              => out = Thrown

(***************************************************************************)
(* Claims about applying scraped profile data, checked under SpecSync.     *)
(***************************************************************************)
ProfileFields == {"name", "followerCount", "verified"}

\* C24: a profile update changes, on the influencer it is for, only profile
\* fields that the incoming data carries, plus lastProfileSync; every other
\* stored field and every other influencer is as before; and applying the
\* same data again leaves the profile fields as they are.
C24_PartialProfileUpdate ==
    [][\A c \in Calls :
          (/\ sync[c].pc = "update"
           /\ sync'[c].outcome = "ok"
           /\ sync[c].target \in DOMAIN influencers)
          => LET id == sync[c].target
                 data == sync[c].data
                 before == influencers[id]
                 after == influencers'[id]
                 again == updateInfluencerProfile(influencers', id, data, now)[id]
             IN  /\ \A f \in ProfileFields : data[f] = Absent => after[f] = before[f]
                 /\ after = [before EXCEPT !.name = after.name,
                                           !.followerCount = after.followerCount,
                                           !.verified = after.verified,
                                           !.lastProfileSync = after.lastProfileSync]
                 /\ \A i \in DOMAIN influencers \ {id} : influencers'[i] = influencers[i]
                 /\ \A f \in ProfileFields : again[f] = after[f]]_vars

\* data without a follower count has been applied to an influencer whose
\* stored follower count came from an earlier update
C24_Witness ==
    \E c \in Calls :
        /\ sync[c].pc = "finally"
        /\ sync[c].kind = "profile"
        /\ sync[c].outcome = "ok"
        /\ sync[c].data.followerCount = Absent
        /\ sync[c].target \in DOMAIN influencers
        /\ influencers[sync[c].target].followerCount = Num(10)

(***************************************************************************)
(* Claims about the 'profile' branch of the handler, checked under         *)
(* SpecShape.                                                              *)
(***************************************************************************)
\* C25: a profile job whose payload is one profile object, not wrapped in an
\* array, is marked completed only after exactly one parseProfileData call
\* (and one profile sync) on that object.
C25_BareProfileIsSynced ==
    (/\ hook.outcome = "completed"
     /\ scrapJobs[hook.jobId].jobType = "profile"
     /\ hook.payload.t = "object")
    => /\ Len(hook.calls) = 1
       /\ hook.calls[1] = parseProfileData(hook.payload)

(***************************************************************************)
(* Claims about post ids and dates, checked under SpecParse.               *)
(***************************************************************************)
\* C26: a payload with neither post_id nor id, parsed a second time, gets
\* the platformPostId it got the first time, whenever the second parse runs.
C26_FallbackIdIsStable ==
    [][(/\ probe.fn = "parsePostData"
        /\ probe.calls = 1
        /\ probe'.fn = "parsePostData"
        /\ probe'.calls = 2
        /\ probe.output # Thrown
        /\ ~Truthy(Get(probe.input, "post_id"))
        /\ ~Truthy(Get(probe.input, "id")))
       => probe'.output.platformPostId = probe.output.platformPostId]_vars

\* the url a post payload is identified by
UrlOf(post) == Or(Get(post, "url"), Get(post, "post_url"))

\* C27: two payloads without post_id and id whose URLs differ get different
\* platformPostIds.
C27_FallbackIdInjective ==
    (probe.fn = "parsePostPair" /\ UrlOf(probe.input[1]) # UrlOf(probe.input[2]))
    => probe.output[1].platformPostId # probe.output[2].platformPostId

\* n > 946684800000, for a number in either form
IsMillis(v) ==
    IF v.t = "number" THEN AfterY2K(v.n)
    ELSE v.k > Y2KThousands \/ (v.k = Y2KThousands /\ (v.r > 0 \/ v.micro > 0))

\* C28: for a number n, parseDate returns n when n > 946684800000 and
\* n * 1000 otherwise, and the result is a whole number of milliseconds.
C28_ParseDateNumber ==
    (probe.fn = "parseDate" /\ probe.input.t \in {"number", "decimal"})
    => LET v == probe.input IN
       /\ "micro" \notin DOMAIN probe.output
       /\ probe.output =
             IF v.t = "number"
             THEN (IF IsMillis(v) THEN Ms(v.n \div 1000, v.n % 1000) ELSE Ms(v.n, 0))
             ELSE (IF IsMillis(v) THEN Ms(v.k, v.r) ELSE Ms(v.k * 1000 + v.r, v.micro \div 1000))

(***************************************************************************)
(* Claims about failed triggers, checked under SpecTrigger (no callback    *)
(* is handled there).                                                      *)
(***************************************************************************)
\* C31: when the trigger request fails after the job row was created, the
\* call rethrows and the row stays as it was created: initial status, no
\* completedAt, no errorMessage; and while no callback is handled no step
\* changes a stored job row.
C31_FailedTriggerLeavesRow ==
    [][/\ (trigger.call.pc = "call" /\ trigger'.call.pc = "threw")
          => /\ trigger'.call.error = RequestError
             /\ trigger.call.jobId \in DOMAIN scrapJobs'
             /\ scrapJobs'[trigger.call.jobId] =
                   createScrapJob(trigger.call.jobType, trigger.call.influencerId,
                                  "LinkedIn", "processing", now)
             /\ scrapJobs'[trigger.call.jobId].completedAt = NoTime
             /\ scrapJobs'[trigger.call.jobId].errorMessage = NoMessage
       /\ \A j \in DOMAIN scrapJobs :
             /\ j \in DOMAIN scrapJobs'
             /\ scrapJobs'[j] = scrapJobs[j]
             /\ scrapJobs[j].status \notin {"completed", "failed"}]_vars

\* the trigger request of the second job failed; both rows are stored
C31_Witness ==
    /\ trigger.call.pc = "threw"
    /\ trigger.call.error = RequestError
    /\ trigger.call.jobId = 2
    /\ Len(scrapJobs) = 2

(***************************************************************************)
(* Claims about a handler invocation that fails part-way, checked under    *)
(* SpecHook.                                                               *)
(***************************************************************************)
RECURSIVE AppliedPosts(_, _, _, _)
\* the Post collection after the upserts of calls, in order
AppliedPosts(coll, calls, influencerId, t) ==
    IF calls = <<>> THEN coll
    ELSE AppliedPosts(syncScrapedPostData(coll, influencerId, Head(calls), t),
                      Tail(calls), influencerId, t)

RECURSIVE AppliedProfiles(_, _, _, _)
AppliedProfiles(coll, calls, influencerId, t) ==
    IF calls = <<>> THEN coll
    ELSE AppliedProfiles(syncScrapedProfileData(coll, influencerId, Head(calls), t),
                         Tail(calls), influencerId, t)

\* the calls of a failed invocation that went through: all of them when the
\* parse of the next element threw, all but the last when the last one threw
WentThrough(h) ==
    IF h.message = "ApplyError" THEN SubSeq(h.calls, 1, Len(h.calls) - 1) ELSE h.calls

C33_TerminalFieldsMatchStatus ==
    \A j \in DOMAIN scrapJobs :
        /\ scrapJobs[j].errorMessage # NoMessage => scrapJobs[j].status = "failed"
        /\ scrapJobs[j].completedAt # NoTime => scrapJobs[j].status = "completed"

(***************************************************************************)
(* Post syncs of influencers that share a handle: an organization starts   *)
(* tracking a handle (addInfluencer) while post syncs run for the records  *)
(* that exist.                                                             *)
(***************************************************************************)
NextShared ==
    \/ \E version \in AddVersions, o \in Organizations :
          AddStart("a1", version, o, "LinkedIn", "h0", TRUE)
    \/ AddCheckDuplicate("a1")
    \/ AddCreate("a1")
    \/ AddReturn("a1")
    \/ \E i \in {"i1", NewIds[1]} : SyncStart("c1", "posts", i)
    \/ SyncFind("c1")
    \/ SyncSetFlag("c1")
    \/ SyncScrapePosts("c1")
    \/ SyncSavePost("c1")
    \/ SyncSaveDone("c1")
    \/ SyncFinally("c1")
    \/ SyncReturn("c1")

SpecShared == Init /\ [][NextShared]_vars

\* C34: once a posts sync for influencer I has processed a post with
\* platformPostId p that the schema accepts, a Post row with platformPostId p
\* and influencerId I exists, whoever else owns a row with that id.
C34_RowForEveryOwner ==
    [][\A c \in Calls :
          (/\ sync[c].pc = "save"
           /\ sync[c].batch # <<>>
           /\ sync'[c].batch = Tail(sync[c].batch)
           /\ SchemaAccepts(Head(sync[c].batch)))
          => \E n \in 1..Len(posts') :
                /\ posts'[n].platformPostId = Head(sync[c].batch).platformPostId
                /\ posts'[n].influencerId = sync[c].target]_vars

\* C35: every Post's influencerId names an Influencer record that exists,
\* also while deleteInfluencer and a post sync interleave.
C35_PostsHaveOwner ==
    \A n \in 1..Len(posts) : posts[n].influencerId \in DOMAIN influencers

(***************************************************************************)
(* A profile payload is parsed by the adapter and the result is applied to *)
(* the influencer by ProfileSyncService.updateInfluencerProfile.           *)
(***************************************************************************)
\* profile payloads with and without the name, the follower count and the
\* verified flag
ScrapedProfiles ==
    {Carrying(ProfileFieldValues, S) : S \in SUBSET {"name", "followers", "verified"}}

ParseAndApplyProfile(payload, id) ==
    /\ probe' = [fn |-> "applyProfile", input |-> payload, time |-> now, calls |-> 1,
                 output |-> parseProfileData(payload), target |-> id]
    /\ influencers' = updateInfluencerProfile(influencers, id, parseProfileData(payload), now)
    /\ UNCHANGED <<posts, scrapJobs, scrapers, now, sync, hook, applied,
                   adds, trigger, relay, factory>>

NextProfile ==
    \/ \E payload \in ScrapedProfiles, i \in InflIds : ParseAndApplyProfile(payload, i)
    \/ Tick

SpecProfile == Init /\ [][NextProfile]_vars

\* C36: applying a parsed profile payload that carries neither a follower
\* count nor a verified flag leaves the stored followerCount and verified
\* as they were.
C36_OmittedCountersKept ==
    [][(/\ probe'.fn = "applyProfile"
        /\ Missing(probe'.input, {"followers", "follower_count", "connections", "verified"})
        /\ influencers[probe'.target].followerCount # Absent)
       => /\ influencers'[probe'.target].followerCount = influencers[probe'.target].followerCount
          /\ influencers'[probe'.target].verified = influencers[probe'.target].verified]_vars

(***************************************************************************)
(* ScrapWebhookPubsubConsumer.startListener, with the consumer it feeds.   *)
(***************************************************************************)
\* startListener(): return when pubsubConsumer is set or the listener is
\* disabled; otherwise open the subscription and register the 'message'
\* listener.  No statement assigns pubsubConsumer.
StartListener(enabled) ==
    /\ relay.starts < MaxListeners
    /\ relay' = [relay EXCEPT
          !.starts = @ + 1,
          !.listeners = IF relay.pubsubConsumer # Null THEN @
                        ELSE IF ~enabled THEN @
                        ELSE @ + 1]
    /\ UNCHANGED <<influencers, posts, scrapJobs, scrapers, now, sync, hook, applied,
                   adds, trigger, factory, probe>>

\* a message reaches the callback only when a listener is registered
ListenerReceive ==
    /\ relay.listeners >= 1
    /\ ConsumerReceive

NextListener ==
    \/ \E enabled \in BOOLEAN : StartListener(enabled)
    \/ \E jobType \in Kinds, i \in InflIds : InitScrap(jobType, i)
    \/ \E message \in OtherMessages : TopicPublish(message)
    \/ ListenerReceive
    \/ \E failCall \in FailCalls : ConsumerHandle(failCall)
    \/ ConsumerAck

SpecListener == Init /\ [][NextListener]_vars

\* C37: however often startListener is called with the listener enabled, at
\* most one message listener is registered for the subscription.
C37_OneListener == relay.listeners <= 1

(***************************************************************************)
(* The relay's /scrap-webhook handler step by step: the request arrives,   *)
(* is routed, the payload is published, the response is sent.  The request *)
(* followed is the latest one; the next one is taken up once it has been   *)
(* answered.                                                               *)
(***************************************************************************)
RequestUrls == {WebhookEndpointBare(0), WebhookEndpoint(1)}
RequestBodies == CallbackBodies \cup {Absent}

RelayArrive(url, body) ==
    /\ relay.request.pc \in {"none", "answered"}
    /\ relay' = [relay EXCEPT !.request =
                    [pc |-> "arrived", url |-> url, body |-> body, status |-> 0]]
    /\ UNCHANGED <<influencers, posts, scrapJobs, scrapers, now, sync, hook, applied,
                   adds, trigger, factory, probe>>

\* a path that matches no route is answered 404 by the framework
RelayRoute ==
    /\ relay.request.pc = "arrived"
    /\ relay' = [relay EXCEPT !.request =
          IF RouteMatches(relay.request.url) THEN [@ EXCEPT !.pc = "publish"]
          ELSE [@ EXCEPT !.pc = "answered", !.status = 404]]
    /\ UNCHANGED <<influencers, posts, scrapJobs, scrapers, now, sync, hook, applied,
                   adds, trigger, factory, probe>>

\* catch (err) { console.error(...); console.error(...); }: the handler ends
\* without res.json / res.status
publishFailed(request) == [request EXCEPT !.pc = "ended"]

\* await producer.publish(...); res.json({status: 'ok'})
RelayPublish(ok) ==
    /\ relay.request.pc = "publish"
    /\ IF ok
       THEN /\ Len(relay.topic) < MaxQueue
            /\ relay' = [relay EXCEPT
                  !.topic = Append(@, RelayPayload(relay.request.body)),
                  !.request = [@ EXCEPT !.pc = "answered", !.status = 200]]
       ELSE relay' = [relay EXCEPT !.request = publishFailed(@)]
    /\ UNCHANGED <<influencers, posts, scrapJobs, scrapers, now, sync, hook, applied,
                   adds, trigger, factory, probe>>

NextRequest ==
    \/ \E url \in RequestUrls, body \in RequestBodies : RelayArrive(url, body)
    \/ RelayRoute
    \/ \E ok \in BOOLEAN : RelayPublish(ok)
    \/ ConsumerReceive
    \/ \E failCall \in FailCalls : ConsumerHandle(failCall)
    \/ ConsumerAck

\* the server runs every handler it started and the consumer keeps taking
\* messages off the topic
SpecRequest ==
    /\ Init
    /\ [][NextRequest]_vars
    /\ WF_vars(RelayRoute)
    /\ WF_vars(\E ok \in BOOLEAN : RelayPublish(ok))
    /\ WF_vars(ConsumerReceive)
    /\ WF_vars(\E failCall \in FailCalls : ConsumerHandle(failCall))
    /\ WF_vars(ConsumerAck)

\* C38: every request to the relay is eventually answered, also when the
\* publish fails.
C38_EveryRequestAnswered ==
    (relay.request.pc = "arrived") ~> (relay.request.pc = "answered")

(***************************************************************************)
(* POST /influencers: the checkInfluencerLimit middleware, then            *)
(* addInfluencer.  Organization o1 has an active pro subscription, o2 has  *)
(* no subscription.                                                        *)
(***************************************************************************)
\* PLAN_LIMITS
PlanLimits == [free |-> 1, starter |-> 10, pro |-> 50]

NoSubscription == [plan |-> "", status |-> ""]
\* SubscriptionModel.findOne({ organizationId })
Subscriptions(organizationId) ==
    IF organizationId = "o1" THEN [plan |-> "pro", status |-> "active"]
    ELSE NoSubscription

\* the limit that applies: the plan's when the subscription is active, the
\* free plan's otherwise
LimitOf(organizationId) ==
    LET subscription == Subscriptions(organizationId) IN
    IF subscription = NoSubscription \/ subscription.status # "active"
    THEN PlanLimits.free
    ELSE PlanLimits[subscription.plan]

\* InfluencerModel.countDocuments({ organizationId })
countDocuments(coll, organizationId) ==
    Cardinality({i \in DOMAIN coll : coll[i].organizationId = organizationId})

\* checkInfluencerLimit: 403 when the count has reached the limit, else next()
CheckInfluencerLimit(a, organizationId) ==
    /\ adds[a].pc = "idle"
    /\ adds' = [adds EXCEPT ![a] =
          IF countDocuments(influencers, organizationId) >= LimitOf(organizationId)
          THEN [IdleAdd EXCEPT !.pc = "done", !.status = 403,
                               !.error = "Influencer limit reached",
                               !.triple.organizationId = organizationId]
          ELSE [IdleAdd EXCEPT !.pc = "admitted",
                               !.triple.organizationId = organizationId]]
    /\ UNCHANGED <<influencers, posts, scrapJobs, scrapers, now, sync, hook, applied,
                   trigger, relay, factory, probe>>

\* next(): the route handler calls addInfluencer for the organization of the
\* request
AddAdmitted(a, version, handle) ==
    /\ adds[a].pc = "admitted"
    /\ adds' = [adds EXCEPT ![a] =
          [IdleAdd EXCEPT !.pc = "check", !.version = version, !.named = TRUE,
             !.triple = [organizationId |-> adds[a].triple.organizationId,
                         platform |-> "LinkedIn", handle |-> handle]]]
    /\ UNCHANGED <<influencers, posts, scrapJobs, scrapers, now, sync, hook, applied,
                   trigger, relay, factory, probe>>

NextLimit ==
    \/ \E a \in Adders, o \in Organizations : CheckInfluencerLimit(a, o)
    \/ \E a \in Adders, version \in AddVersions, h \in Handles : AddAdmitted(a, version, h)
    \/ \E a \in Adders : AddCheckDuplicate(a)
    \/ \E a \in Adders : AddCreate(a)
    \/ \E a \in Adders : AddReturn(a)

SpecLimit == Init /\ [][NextLimit]_vars

\* C39: no organization has more Influencer records than its plan allows,
\* also when add-influencer requests of one organization run concurrently.
C39_WithinPlanLimit ==
    \A o \in Organizations : countDocuments(influencers, o) <= LimitOf(o)
====
